---- MODULE Spec2Model ----
(***************************************************************************)
(* Overlord BFT consensus core: the State driver (src/state/process.rs),   *)
(* the SMR step machine it drives, the WAL record and the wire codec.      *)
(*                                                                         *)
(* Every Rust method of State is an operator from a handler context (the   *)
(* fields of State plus the effects the call has produced so far) to a     *)
(* handler context; an early `return Err(..)` / `?` sets the field err.    *)
(* Option<T> is a set with at most one element.                            *)
(***************************************************************************)
EXTENDS Integers, Sequences, FiniteSets, TLC

\* ------------------------------------------------------------------ bounds
MaxHeight == 2      \* heights 1 .. MaxHeight are played; a status may name MaxHeight + 1
MaxRound == 1       \* rounds 0 .. MaxRound (+ 1 for a ContinueRound target)
MaxNet == 3         \* messages the environment hands to a node in one behaviour
MaxQueue == 1       \* messages waiting on a node's verify_sig channel when one more arrives
MaxFault == 1       \* crashes and failing collaborator calls in one behaviour
MaxTimer == 1       \* timer fires in one behaviour

\* ------------------------------------------------------- program constants
INIT_HEIGHT == 0
INIT_ROUND == 0
FUTURE_HEIGHT_GAP == 5
FUTURE_ROUND_GAP == 10
\* u64::MAX, the round of the placeholder QC a height starts from. It is only
\* ever compared, never computed with; the largest integer of the checker
\* stands for it.
U64_MAX == 2147483647

\* --------------------------------------------------------------- basic data
None == {}
Some(x) == {x}
IsSome(o) == o # {}
Unwrap(o) == CHOOSE x \in o : TRUE

\* Address / Hash: uninterpreted byte strings; 0 is the empty (default) value.
EmptyHash == 0
DefaultAddress == 0
Addresses == 1 .. 4
Outsider == Cardinality(Addresses) + 1
BlockHashes == {1, 2}
Hashes == {EmptyHash} \cup BlockHashes

\* The block an honest proposer puts behind hash h; any other content of a
\* proposal that names h is a block that does not hash to h.
BlockOf(h) == 10 + h

Prevote == "Prevote"
Precommit == "Precommit"
VoteTypes == {Prevote, Precommit}

Steps == <<"Propose", "Prevote", "Precommit", "Brake", "Commit">>

\* impl From<Step> for u8
StepToU8(step) ==
  CASE step = "Propose" -> 0
    [] step = "Prevote" -> 1
    [] step = "Precommit" -> 2
    [] step = "Brake" -> 3
    [] step = "Commit" -> 4

\* impl From<VoteType> for Step
VoteTypeToStep(v) == IF v = Prevote THEN "Prevote" ELSE "Precommit"

\* impl From<VoteType> for TriggerType
VoteTypeToTrigger(v) == IF v = Prevote THEN "PrevoteQC" ELSE "PrecommitQC"

\* mock_init_qc(): the placeholder precommit QC of a height's round 0.
mock_init_qc ==
  [signature |-> [signature |-> <<>>, address_bitmap |-> <<>>],
   vote_type |-> Precommit, height |-> 0, round |-> 0,
   block_hash |-> EmptyHash, leader |-> DefaultAddress]

\* ---------------------------------------------------------- AuthorityManage
\* A Node is [address, vote_weight]; an authority list is a sequence of Nodes
\* in ascending address order (AuthorityManage::update sorts it).
RECURSIVE SortNodes(_)
SortNodes(S) ==
  IF S = {} THEN <<>>
  ELSE LET m == CHOOSE x \in S : \A y \in S : x.address <= y.address
       IN <<m>> \o SortNodes(S \ {m})

AuthAddresses(list) == {list[i].address : i \in 1 .. Len(list)}

\* AuthorityManage::update: move current to previous, install the sorted list.
AuthUpdate(auth, nodes) == [current |-> SortNodes(nodes), last |-> auth.current]

AuthContains(auth, addr) == addr \in AuthAddresses(auth.current)

AuthLen(auth) == Len(auth.current)

RECURSIVE SumWeights(_, _)
SumWeights(list, i) ==
  IF i > Len(list) THEN 0 ELSE list[i].vote_weight + SumWeights(list, i + 1)

get_vote_weight_sum(auth) == SumWeights(auth.current, 1)

\* get_vote_weight(addr): Some(weight), or None (an Err) for an unknown address.
get_vote_weight(auth, addr) ==
  {auth.current[i].vote_weight : i \in {j \in 1 .. Len(auth.current) : auth.current[j].address = addr}}

\* get_proposer(height, round) = authority[(height + round) mod len].address;
\* None (an Err) on an empty list.
get_proposer(auth, height, round) ==
  IF Len(auth.current) = 0 THEN None
  ELSE Some(auth.current[((height + round) % Len(auth.current)) + 1].address)

\* ------------------------------------------------------------ finite maps
EmptyMap == [x \in {} |-> x]
MapHas(f, k) == k \in DOMAIN f
MapPut(f, k, v) == [x \in DOMAIN f \cup {k} |-> IF x = k THEN v ELSE f[x]]
\* HashMap::entry(k).or_insert(v)
MapPutIfAbsent(f, k, v) == IF k \in DOMAIN f THEN f ELSE MapPut(f, k, v)

RECURSIVE SortSet(_)
SortSet(S) ==
  IF S = {} THEN <<>>
  ELSE LET m == CHOOSE x \in S : \A y \in S : x <= y IN <<m>> \o SortSet(S \ {m})

SeqToSet(q) == {q[i] : i \in 1 .. Len(q)}

\* --------------------------------------------------------------- collectors
\* ProposalCollector: at most one signed proposal per (height, round).
ProposalGet(proposals, h, r) ==
  {p \in proposals : p.proposal.height = h /\ p.proposal.round = r}

\* insert: Ok keeps the first proposal of the slot; a proposal with another
\* hash in an occupied slot is MultiProposal(h, r).
ProposalInsertErr(proposals, h, r, sp) ==
  \E p \in proposals :
    /\ p.proposal.height = h /\ p.proposal.round = r
    /\ p.proposal.block_hash # sp.proposal.block_hash

ProposalInsert(proposals, h, r, sp) ==
  IF \E p \in proposals : p.proposal.height = h /\ p.proposal.round = r
  THEN proposals ELSE proposals \cup {sp}

\* flush(till): drop every entry with height <= till.
ProposalFlush(proposals, till) == {p \in proposals : p.proposal.height > till}

\* VoteCollector: signed votes, one per voter in a (height, round, type) slot.
VoteInsert(votes, sv) ==
  IF \E v \in votes :
       /\ v.vote.height = sv.vote.height /\ v.vote.round = sv.vote.round
       /\ v.vote.vote_type = sv.vote.vote_type /\ v.voter = sv.voter
  THEN votes ELSE votes \cup {sv}

VoteFlush(votes, till) == {v \in votes : v.vote.height > till}

\* get_votes(h, r, type, hash): the signed votes of the slot for that hash.
get_votes(votes, h, r, t, hash) ==
  {v \in votes : /\ v.vote.height = h /\ v.vote.round = r
                 /\ v.vote.vote_type = t /\ v.vote.block_hash = hash}

\* get_vote_map(h, r, type): hash -> set of voters.
VoteMapHashes(votes, h, r, t) ==
  {v.vote.block_hash : v \in {x \in votes :
      x.vote.height = h /\ x.vote.round = r /\ x.vote.vote_type = t}}

VoteMapVoters(votes, h, r, t, hash) == {v.voter : v \in get_votes(votes, h, r, t, hash)}

\* set_qc: the QC of the (height, round, type) slot is replaced.
QcSet(qcs, qc) ==
  {q \in qcs : ~(q.height = qc.height /\ q.round = qc.round /\ q.vote_type = qc.vote_type)}
    \cup {qc}

QcFlush(qcs, till) == {q \in qcs : q.height > till}

\* get_qc_by_id(h, r, type): Option (Err when absent).
get_qc_by_id(qcs, h, r, t) ==
  {q \in qcs : q.height = h /\ q.round = r /\ q.vote_type = t}

\* get_qc_by_hash(h, hash, type): scans the rounds of the height; of several
\* rounds holding a QC on the hash the highest is returned.
get_qc_by_hash(qcs, h, hash, t) ==
  LET c == {q \in qcs : q.height = h /\ q.block_hash = hash /\ q.vote_type = t}
  IN {q \in c : \A o \in c : o.round <= q.round}

\* ChokeCollector: per round the signed chokes keyed by voter, and a QC.
ChokeInsert(chokes, round, sc) ==
  {c \in chokes : ~(c.choke.round = round /\ c.address = sc.address)} \cup {sc}

get_chokes(chokes, round) == {c \in chokes : c.choke.round = round}

max_round_above_threshold(chokes, auth_len) ==
  LET rs == {r \in {c.choke.round : c \in chokes} :
               Cardinality(get_chokes(chokes, r)) * 3 > auth_len * 2}
  IN {r \in rs : \A o \in rs : o <= r}

ChokeQcSet(choke_qcs, round, ac) ==
  {q \in choke_qcs : q.round # round} \cup {ac}

ChokeQcGet(choke_qcs, round) == {q \in choke_qcs : q.round = round}

\* --------------------------------------------------------- handler context
\* A handler context c holds the fields of State, the WAL record, what the
\* collaborators answer during this call (c.env) and the effects so far:
\*   trig  SMR triggers sent, in order        out   broadcasts / transmits
\*   chk   check_block tasks spawned          pv    parallel_verify dispatches
\*   commits  calls of the application's commit     views  report_view_change
\*   fx    the order of WAL saves and emissions     err   "Ok" or the error

Ok == "Ok"
IsOk(c) == c.err = Ok
Fail(c, e) == [c EXCEPT !.err = e]

SMRTrigger(type, hash, lock_round, round, height, wal_info) ==
  [trigger_type |-> type, source |-> "State", hash |-> hash,
   lock_round |-> lock_round, round |-> round, height |-> height,
   wal_info |-> wal_info]

\* SMRHandler::trigger: queue a trigger for the SMR task.
Trigger(c, t) == [c EXCEPT !.trig = Append(@, t), !.fx = Append(@, <<"trigger", t.trigger_type>>)]

\* broadcast_to_other(msg)
broadcast(c, kind, msg) ==
  [c EXCEPT !.out = Append(@, [to |-> None, kind |-> kind, msg |-> msg]),
            !.fx = Append(@, <<"send", kind, msg>>)]

\* transmit_to_relayer(leader_address, msg)
transmit(c, kind, msg) ==
  [c EXCEPT !.out = Append(@, [to |-> Some(c.leader_address), kind |-> kind, msg |-> msg]),
            !.fx = Append(@, <<"send", kind, msg>>)]

\* check_block: spawn the check of (height, round, hash, block); its answer
\* comes back later on the verify_resp channel.
check_block(c, hash, block) ==
  [c EXCEPT !.chk = @ \cup {[height |-> c.height, round |-> c.round,
                             block_hash |-> hash, block |-> block]}]

\* try_get_full_txs: an empty hash needs no check.
try_get_full_txs(c, hash) ==
  IF hash = EmptyHash THEN TRUE
  ELSE IF MapHas(c.is_full_transaction, hash) THEN c.is_full_transaction[hash]
  ELSE FALSE

\* verify_address: InvalidAddress unless the authority list holds the address.
verify_address(c, address) == AuthContains(c.authority, address)

\* verify_proposer: "Ok", "InvalidAddress" or "ProposalErr".
verify_proposer(c, height, round, address) ==
  IF ~verify_address(c, address) THEN "InvalidAddress"
  ELSE IF Some(address) # get_proposer(c.authority, height, round) THEN "ProposalErr"
  ELSE Ok

\* filter_message with the test for an outdated message only.
filter_message_outdated_only(c, height, round) ==
  height < c.height \/ (height = c.height /\ round < c.round)

\* The debug line filter_message writes when it drops a message.
filtered(c, height, round) ==
  [c EXCEPT !.fx = Append(@, <<"filtered", height, round>>)]

\* filter_message without the round bound for a message of the node's height.
filter_message_unbounded_round(c, height, round) ==
  IF height < c.height \/ (height = c.height /\ round < c.round) THEN TRUE
  ELSE IF c.height + FUTURE_HEIGHT_GAP < height THEN TRUE
  ELSE IF height > c.height /\ round > FUTURE_ROUND_GAP THEN TRUE
  ELSE FALSE

\* filter_message: TRUE when the vote or proposal is to be dropped.
filter_message(c, height, round) ==
  IF height < c.height \/ (height = c.height /\ round < c.round) THEN TRUE
  ELSE IF c.height + FUTURE_HEIGHT_GAP < height THEN TRUE
  ELSE IF (height = c.height /\ c.round + FUTURE_ROUND_GAP < round)
          \/ (height > c.height /\ round > FUTURE_ROUND_GAP) THEN TRUE
  ELSE FALSE

\* save_wal: replace the single WAL record; SaveWalErr when the store fails.
save_wal(c, step, lock) ==
  IF c.env.wal_ok
  THEN [c EXCEPT !.wal = Some([height |-> c.height, round |-> c.round, step |-> step,
                               from |-> c.update_from_where, lock |-> lock]),
                 !.fx = Append(@, <<"save_wal", step>>)]
  ELSE [c EXCEPT !.err = "SaveWalErr", !.fx = Append(@, <<"save_wal_failed", step>>)]

\* save_wal_with_lock_round with the record's lock round one above the round
\* of the QC it stores.
save_wal_with_lock_round_shifted(c, step, lock_round) ==
  IF lock_round = None THEN save_wal(c, step, None)
  ELSE LET round == Unwrap(lock_round)
           qc == get_qc_by_id(c.qcs, c.height, round, Prevote)
       IN IF qc = None THEN Fail(c, "Other:no qc")
          ELSE IF ~MapHas(c.hash_with_block, Unwrap(qc).block_hash)
               THEN Fail(c, "Other:lose whole block")
          ELSE save_wal(c, step, Some([lock_round |-> round + 1, lock_votes |-> Unwrap(qc),
                                       content |-> c.hash_with_block[Unwrap(qc).block_hash]]))

\* save_wal_with_lock_round: the lock is rebuilt from the prevote QC of the
\* lock round and the block of its hash; either missing is an error.
save_wal_with_lock_round(c, step, lock_round) ==
  IF lock_round = None THEN save_wal(c, step, None)
  ELSE LET round == Unwrap(lock_round)
           qc == get_qc_by_id(c.qcs, c.height, round, Prevote)
       IN IF qc = None THEN Fail(c, "Other:no qc")
          ELSE IF ~MapHas(c.hash_with_block, Unwrap(qc).block_hash)
               THEN Fail(c, "Other:lose whole block")
          ELSE save_wal(c, step, Some([lock_round |-> round, lock_votes |-> Unwrap(qc),
                                       content |-> c.hash_with_block[Unwrap(qc).block_hash]]))

\* ------------------------------------------------------- QC construction
RECURSIVE SumVoterWeights(_, _)
SumVoterWeights(auth, voters) ==
  IF voters = {} THEN 0
  ELSE LET a == CHOOSE x \in voters : TRUE
       IN Unwrap(get_vote_weight(auth, a)) + SumVoterWeights(auth, voters \ {a})

\* The threshold test of counting_vote: acc * 3 > vote_weight_sum * 2.
AboveThreshold(acc, weight_sum) == acc * 3 > weight_sum * 2

\* counting_vote: the vote map of (self.height, self.round, type) is walked in
\* hash-map order; a voter without a weight ends the walk with an error, a
\* hash above the threshold ends it with Some(hash). The result is
\* [err, hash]: err "Ok" with hash an Option, or an error.
counting_vote(c, vote_type) ==
  LET hs == VoteMapHashes(c.votes, c.height, c.round, vote_type)
      voters(h) == VoteMapVoters(c.votes, c.height, c.round, vote_type, h)
      bad == {h \in hs : \E a \in voters(h) : get_vote_weight(c.authority, a) = None}
      win == {h \in hs \ bad :
                AboveThreshold(SumVoterWeights(c.authority, voters(h)),
                               get_vote_weight_sum(c.authority))}
  IN IF hs = {} THEN [err |-> "StorageErr", hash |-> None]
     ELSE IF bad # {} /\ (c.env.err_first \/ win = {})
          THEN [err |-> "InvalidAddress", hash |-> None]
     ELSE IF win # {} THEN [err |-> Ok, hash |-> Some(CHOOSE h \in win : TRUE)]
     ELSE [err |-> Ok, hash |-> None]

\* The address bitmap of a voter set: one bit per authority node, in list order.
AddressBitmap(auth, voters) ==
  [i \in 1 .. Len(auth.current) |-> auth.current[i].address \in voters]

\* generate_qc: aggregate the votes of (self.height, self.round, type, hash),
\* voters in ascending address order. Option (None is the Err of get_votes).
generate_qc(c, block_hash, vote_type) ==
  LET vs == get_votes(c.votes, c.height, c.round, vote_type, block_hash)
      voters == {v.voter : v \in vs}
      signer(a) == (CHOOSE v \in vs : v.voter = a).signature
      order == SortSet(voters)
  IN IF vs = {} THEN None
     ELSE Some([signature |->
                  [signature |-> [i \in 1 .. Len(order) |-> signer(order[i])],
                   address_bitmap |-> AddressBitmap(c.authority, voters)],
                vote_type |-> vote_type, height |-> c.height, round |-> c.round,
                block_hash |-> block_hash, leader |-> c.address])

\* ------------------------------------------------------------ QCs and chokes
\* handle_aggregated_choke: a choke QC below the threshold is a BrakeErr;
\* otherwise it is stored and SMR is told to continue at round + 1.
handle_aggregated_choke(c, ac) ==
  IF Len(ac.voters) * 3 <= AuthLen(c.authority) * 2 THEN Fail(c, "BrakeErr")
  ELSE Trigger([c EXCEPT !.choke_qcs = ChokeQcSet(@, ac.round, ac)],
               SMRTrigger("ContinueRound", EmptyHash, None, ac.round + 1, c.height, None))

\* handle_aggregated_vote without the branch for a QC of a later height.
handle_aggregated_vote_no_later(c, av) ==
  IF av.height < c.height THEN c
  ELSE IF av.vote_type = Prevote /\ av.round < c.round THEN c
  ELSE IF av.vote_type = Precommit /\ av.block_hash = EmptyHash /\ av.round < c.round THEN c
  ELSE LET c1 == [c EXCEPT !.qcs = QcSet(@, av)]
       IN IF av.block_hash # EmptyHash /\ ~try_get_full_txs(c1, av.block_hash) THEN c1
          ELSE Trigger(c1, SMRTrigger(VoteTypeToTrigger(av.vote_type), av.block_hash,
                                      None, av.round, av.height, None))

\* handle_aggregated_vote: lower height dropped, higher height cached within
\* the gap, equal height stored and (once the block is checked) triggered.
handle_aggregated_vote(c, av) ==
  IF av.height < c.height THEN c
  ELSE IF av.height > c.height
       THEN IF c.height + FUTURE_HEIGHT_GAP > av.height /\ av.round < FUTURE_ROUND_GAP
            THEN [c EXCEPT !.qcs = QcSet(@, av)]
            ELSE c
  ELSE IF av.vote_type = Prevote /\ av.round < c.round THEN c
  ELSE IF av.vote_type = Precommit /\ av.block_hash = EmptyHash /\ av.round < c.round THEN c
  ELSE LET c1 == [c EXCEPT !.qcs = QcSet(@, av)]
       IN IF av.block_hash # EmptyHash /\ ~try_get_full_txs(c1, av.block_hash) THEN c1
          ELSE Trigger(c1, SMRTrigger(VoteTypeToTrigger(av.vote_type), av.block_hash,
                                      None, av.round, av.height, None))

\* check_choke_above_threshold without the aggregation of the chokes.
check_choke_above_threshold_unaggregated(c) ==
  LET top == max_round_above_threshold(c.chokes, AuthLen(c.authority))
  IN IF top = None \/ Unwrap(top) < c.round THEN c
     ELSE Trigger(c, SMRTrigger("ContinueRound", EmptyHash, None, Unwrap(top) + 1,
                                c.height, None))

\* check_choke_above_threshold: the highest round whose chokes exceed 2/3 of
\* the authority list (by count) is aggregated, if it is not a past round.
check_choke_above_threshold(c) ==
  LET top == max_round_above_threshold(c.chokes, AuthLen(c.authority))
  IN IF top = None THEN c
     ELSE LET round == Unwrap(top)
              voters == SortSet({sc.address : sc \in get_chokes(c.chokes, round)})
              ac == [height |-> c.height, round |-> round,
                     signature |-> voters, voters |-> voters]
          IN IF round < c.round THEN c
             ELSE Trigger([c EXCEPT !.choke_qcs = ChokeQcSet(@, round, ac)],
                          SMRTrigger("ContinueRound", EmptyHash, None, round + 1,
                                     c.height, None))

\* handle_signed_choke that collects and counts a choke of a later round
\* after its justification.
handle_signed_choke_collects_later(c, sc) ==
  IF sc.choke.height # c.height THEN c
  ELSE IF sc.choke.round < c.round THEN c
  ELSE check_choke_above_threshold(
         [c EXCEPT !.chokes = ChokeInsert(@, sc.choke.round, sc)])

\* handle_signed_choke: a choke of a later round only has its justification
\* processed; a choke of the current round is collected and counted.
handle_signed_choke(c, sc) ==
  IF sc.choke.height # c.height THEN c
  ELSE IF sc.choke.round < c.round THEN c
  ELSE IF sc.choke.round > c.round
       THEN IF sc.choke.from.tag = "ChokeQC" THEN handle_aggregated_choke(c, sc.choke.from.qc)
            ELSE handle_aggregated_vote(c, sc.choke.from.qc)
  ELSE check_choke_above_threshold(
         [c EXCEPT !.chokes = ChokeInsert(@, sc.choke.round, sc)])

\* ---------------------------------------------------------------- votes
\* handle_signed_vote: filter, check the voter, collect; at the current
\* height count the votes of (self.height, self.round) and build the QC.
handle_signed_vote(c, sv) ==
  LET height == sv.vote.height
      round == sv.vote.round
      vote_type == sv.vote.vote_type
  IN IF filter_message(c, height, round) THEN filtered(c, height, round)
     ELSE IF ~verify_address(c, sv.voter) THEN Fail(c, "InvalidAddress")
     ELSE IF get_qc_by_id(c.qcs, height, round, vote_type) # None THEN c
     ELSE LET c1 == [c EXCEPT !.votes = VoteInsert(@, sv)]
              cv == counting_vote(c1, vote_type)
          IN IF height > c.height THEN c1
             ELSE IF cv.err # Ok THEN Fail(c1, cv.err)
             ELSE IF cv.hash = None THEN c1
             ELSE LET block_hash == Unwrap(cv.hash)
                      qc == generate_qc(c1, block_hash, vote_type)
                  IN IF qc = None THEN Fail(c1, "StorageErr")
                     ELSE LET c2 == broadcast([c1 EXCEPT !.qcs = QcSet(@, Unwrap(qc))],
                                              "AggregatedVote", Unwrap(qc))
                          IN IF ~try_get_full_txs(c2, block_hash) THEN c2
                             ELSE Trigger(c2, SMRTrigger(VoteTypeToTrigger(vote_type),
                                            block_hash, None, Unwrap(qc).round,
                                            Unwrap(qc).height, None))

\* vote_process: after the node's own vote. A replica triggers SMR with a QC it
\* already holds for the round; the leader counts and builds the QC itself.
vote_process(c, vote_type) ==
  IF ~c.is_leader
  THEN LET qc == get_qc_by_id(c.qcs, c.height, c.round, vote_type)
       IN IF qc = None THEN c
          ELSE IF ~try_get_full_txs(c, Unwrap(qc).block_hash) THEN c
          ELSE Trigger(c, SMRTrigger(VoteTypeToTrigger(Unwrap(qc).vote_type),
                                     Unwrap(qc).block_hash, None, c.round, c.height, None))
  ELSE LET cv == counting_vote(c, vote_type)
       IN IF cv.err # Ok THEN Fail(c, cv.err)
          ELSE IF cv.hash = None THEN c
          ELSE LET block_hash == Unwrap(cv.hash)
                   qc == generate_qc(c, block_hash, vote_type)
               IN IF qc = None THEN Fail(c, "StorageErr")
                  ELSE LET c2 == broadcast([c EXCEPT !.qcs = QcSet(@, Unwrap(qc))],
                                           "AggregatedVote", Unwrap(qc))
                       IN IF ~try_get_full_txs(c2, block_hash) THEN c2
                          ELSE Trigger(c2, SMRTrigger(VoteTypeToTrigger(vote_type),
                                         block_hash, None, c.round, c.height, None))

\* ------------------------------------------------------------- proposals
\* filter_signed_proposal: [c, drop]; a proposal of another round or of a
\* later height is cached in the proposal collector.
filter_signed_proposal(c, height, round, sp) ==
  IF filter_message(c, height, round)
  THEN [c |-> filtered(c, height, round), drop |-> TRUE]
  ELSE IF (height = c.height /\ round # c.round) \/ height > c.height
       THEN IF ProposalInsertErr(c.proposals, height, round, sp)
            THEN [c |-> Fail(c, "MultiProposal"), drop |-> TRUE]
            ELSE [c |-> [c EXCEPT !.proposals = ProposalInsert(@, height, round, sp)],
                  drop |-> TRUE]
  ELSE [c |-> c, drop |-> FALSE]

\* handle_signed_proposal: a proposal of the current (height, round) has its
\* block recorded, is stored, triggers SMR and has its block checked.
handle_signed_proposal(c, sp) ==
  LET proposal == sp.proposal
      vp == verify_proposer(c, proposal.height, proposal.round, proposal.proposer)
      f == filter_signed_proposal(c, proposal.height, proposal.round, sp)
      lock_round == IF proposal.lock # None THEN Some(Unwrap(proposal.lock).lock_round)
                    ELSE None
      c1 == [f.c EXCEPT !.hash_with_block = MapPut(@, proposal.block_hash, proposal.content)]
  IN IF vp # Ok THEN Fail(c, vp)
     ELSE IF f.drop THEN f.c
     ELSE IF ProposalInsertErr(c1.proposals, c1.height, c1.round, sp)
          THEN Fail(c1, "MultiProposal")
     ELSE check_block(
            Trigger([c1 EXCEPT !.proposals = ProposalInsert(@, c1.height, c1.round, sp)],
                    SMRTrigger("Proposal", proposal.block_hash, lock_round,
                               proposal.round, proposal.height, None)),
            proposal.block_hash, proposal.content)

\* ------------------------------------------------------------ new height
\* Status::is_consensus_node
is_consensus_node(status, address) == \E n \in status.authority_list : n.address = address

\* parallel_verify of a cached message, with the authority of the moment.
dispatch_verify(c, kind, msg) ==
  [c EXCEPT !.pv = @ \cup {[kind |-> kind, msg |-> msg]}]

RECURSIVE dispatch_all(_, _, _)
dispatch_all(c, kind, msgs) ==
  IF msgs = {} THEN c
  ELSE LET m == CHOOSE x \in msgs : TRUE
       IN dispatch_all(dispatch_verify(c, kind, m), kind, msgs \ {m})

\* goto_new_height that does not clear hash_with_block.
enter_new_height_keeps_blocks(c, status) ==
       LET c1 == [c EXCEPT !.height = status.height, !.round = INIT_ROUND,
                           !.consensus_power = is_consensus_node(status, c.address)]
           c2 == save_wal(c1, "Propose", None)
           h == status.height
           c3 == [c2 EXCEPT !.authority = AuthUpdate(@, status.authority_list),
                            !.proposals = ProposalFlush(@, h - 1),
                            !.votes = VoteFlush(@, h - 1),
                            !.qcs = QcFlush(@, h - 1),
                            !.chokes = {}, !.choke_qcs = {}]
           ps == {p \in c3.proposals : p.proposal.height = h}
           vs == {v \in c3.votes : v.vote.height = h}
           qs == {q \in c3.qcs : q.height = h}
           c4 == [c3 EXCEPT !.proposals = @ \ ps, !.votes = @ \ vs, !.qcs = @ \ qs]
           c5 == dispatch_all(dispatch_all(dispatch_all(c4, "SignedProposal", ps),
                                           "SignedVote", vs), "AggregatedVote", qs)
       IN IF ~c1.consensus_power THEN c1
          ELSE IF ~IsOk(c2) THEN c2
          ELSE Trigger(c5, SMRTrigger("NewHeight", EmptyHash, None, INIT_ROUND, h, None))

\* goto_new_height: a status that is not ahead is ignored. Otherwise move to
\* (status.height, 0); a node without consensus power stops there; the others
\* save the Propose WAL record, install the authority list, drop what is
\* outdated, hand what was cached for the new height to the verifier again
\* (get_height_proposals / get_height_votes take it out of the collectors)
\* and tell SMR.
\* goto_new_height past the test for an outdated status.
enter_new_height(c, status) ==
       LET c1 == [c EXCEPT !.height = status.height, !.round = INIT_ROUND,
                           !.consensus_power = is_consensus_node(status, c.address)]
           c2 == save_wal(c1, "Propose", None)
           h == status.height
           c3 == [c2 EXCEPT !.authority = AuthUpdate(@, status.authority_list),
                            !.proposals = ProposalFlush(@, h - 1),
                            !.votes = VoteFlush(@, h - 1),
                            !.qcs = QcFlush(@, h - 1),
                            !.hash_with_block = EmptyMap,
                            !.chokes = {}, !.choke_qcs = {}]
           ps == {p \in c3.proposals : p.proposal.height = h}
           vs == {v \in c3.votes : v.vote.height = h}
           qs == {q \in c3.qcs : q.height = h}
           c4 == [c3 EXCEPT !.proposals = @ \ ps, !.votes = @ \ vs, !.qcs = @ \ qs]
           c5 == dispatch_all(dispatch_all(dispatch_all(c4, "SignedProposal", ps),
                                           "SignedVote", vs), "AggregatedVote", qs)
       IN IF ~c1.consensus_power THEN c1
          ELSE IF ~IsOk(c2) THEN c2
          ELSE Trigger(c5, SMRTrigger("NewHeight", EmptyHash, None, INIT_ROUND, h, None))

\* goto_new_height without the test for an outdated status.
goto_new_height_unchecked(c, status) == enter_new_height(c, status)

\* goto_new_height: an outdated status is logged and dropped.
goto_new_height(c, status) ==
  IF status.height <= c.height
  THEN [c EXCEPT !.fx = Append(@, <<"outdated_status", status.height>>)]
  ELSE enter_new_height(c, status)

\* ------------------------------------------------------------- new round
\* view_change_reason(round, from_where)
view_change_reason(c, round, from_where) ==
  IF round # from_where.round
  THEN <<"UpdateFromHigher" \o from_where.tag, round, from_where.round>>
  ELSE IF c.is_leader
       THEN LET qc == get_qc_by_id(c.qcs, c.height, round, Prevote)
            IN IF qc # None /\ Unwrap(qc).block_hash # EmptyHash
               THEN <<"LeaderReceivedVoteBelowThreshold", Precommit>>
               ELSE <<"LeaderReceivedVoteBelowThreshold", Prevote>>
  ELSE LET proposal == ProposalGet(c.proposals, c.height, round)
       IN IF proposal = None THEN <<"NoProposalFromNetwork">>
          ELSE IF ~MapHas(c.is_full_transaction, Unwrap(proposal).proposal.block_hash)
               THEN <<"CheckBlockNotPass">>
          ELSE IF get_qc_by_id(c.qcs, c.height, round, Prevote) = None
               THEN <<"NoPrevoteQCFromNetwork">>
          ELSE IF get_qc_by_id(c.qcs, c.height, round, Precommit) = None
               THEN <<"NoPrecommitQCFromNetwork">>
          ELSE <<"Others">>

\* set_update_from: load the QC the new round comes from; a missing QC is an
\* error and leaves update_from_where as it was.
set_update_from(c, from_where) ==
  LET qc == IF from_where.tag = "PrevoteQC"
              THEN get_qc_by_id(c.qcs, c.height, from_where.round, Prevote)
            ELSE IF from_where.tag = "PrecommitQC"
              THEN IF from_where.round = U64_MAX THEN Some(mock_init_qc)
                   ELSE get_qc_by_id(c.qcs, c.height, from_where.round, Precommit)
            ELSE ChokeQcGet(c.choke_qcs, from_where.round)
  IN IF qc = None
     THEN Fail(c, IF from_where.tag = "ChokeQC" THEN "BrakeErr" ELSE "StorageErr")
     ELSE [c EXCEPT !.update_from_where = [tag |-> from_where.tag, qc |-> Unwrap(qc)]]

\* is_proposer: sets is_leader and leader_address; res is an Option<bool>
\* (None: get_proposer failed).
is_proposer(c) ==
  LET proposer == get_proposer(c.authority, c.height, c.round)
  IN IF proposer = None THEN [c |-> Fail(c, "Other:proposer"), res |-> None]
     ELSE IF Unwrap(proposer) = c.address
          THEN [c |-> [c EXCEPT !.is_leader = TRUE, !.leader_address = c.address],
                res |-> Some(TRUE)]
     ELSE [c |-> [c EXCEPT !.is_leader = FALSE, !.leader_address = Unwrap(proposer)],
           res |-> Some(FALSE)]

\* sign_proposal / sign_vote: Crypto::sign by this node; the signature is
\* modelled by the signer's address.
sign_proposal(c, proposal) == [signature |-> c.address, proposal |-> proposal]

sign_vote(c, vote) == [voter |-> c.address, signature |-> c.address, vote |-> vote]

\* report_view_change(round, reason)
report_view_change(c, round, reason) ==
  [c EXCEPT !.views = Append(@, [height |-> c.height, round |-> round, reason |-> reason])]

\* handle_new_round proposing without the PoLC of the lock.
handle_new_round_no_polc(c, new_round, lock_round, lock_proposal, from_where) ==
  LET c0 == IF new_round # INIT_ROUND
            THEN report_view_change(c, c.round, view_change_reason(c, c.round, from_where))
            ELSE c
      c1 == [c0 EXCEPT !.round = new_round, !.is_leader = FALSE]
      c2 == set_update_from(c1, from_where)
      c3 == save_wal_with_lock_round(c2, "Propose", lock_round)
      ip == is_proposer(c3)
      cached == ProposalGet(ip.c.proposals, ip.c.height, ip.c.round)
      c4 == [ip.c EXCEPT !.is_leader = TRUE]
      \* the block, its hash and the PoLC of the proposal to make
      fresh == lock_round = None
      hash == IF fresh THEN Unwrap(c.env.get_block) ELSE Unwrap(lock_proposal)
      block == IF fresh THEN BlockOf(hash) ELSE c4.hash_with_block[hash]
      qc == get_qc_by_id(c4.qcs, c4.height, Unwrap(lock_round), Prevote)
      polc == None
      c5 == [c4 EXCEPT !.hash_with_block = MapPutIfAbsent(@, hash, block)]
      proposal == [height |-> c5.height, round |-> c5.round, content |-> block,
                   block_hash |-> hash, lock |-> polc, proposer |-> c5.address]
  IN IF (lock_round # None) # (lock_proposal # None) THEN Fail(c1, "ProposalErr")
     ELSE IF ~IsOk(c2) THEN c2
     ELSE IF ~IsOk(c3) THEN c3
     ELSE IF ip.res = None THEN ip.c
     ELSE IF ~Unwrap(ip.res)
          THEN IF cached # None THEN handle_signed_proposal(ip.c, Unwrap(cached))
               ELSE ip.c
     ELSE IF fresh /\ c.env.get_block = None THEN Fail(c4, "Other:get block")
     ELSE IF ~fresh /\ ~MapHas(c4.hash_with_block, hash) THEN Fail(c4, "ProposalErr")
     ELSE IF ~fresh /\ qc = None THEN Fail(c4, "ProposalErr")
     ELSE IF ~c.env.sign_ok THEN Fail(c5, "CryptoErr")
     ELSE check_block(
            Trigger(broadcast(c5, "SignedProposal", sign_proposal(c5, proposal)),
                    SMRTrigger("Proposal", hash, lock_round, c5.round, c5.height, None)),
            hash, block)

\* handle_new_round that does not look for a proposal of the round in the
\* collector.
handle_new_round_no_cache(c, new_round, lock_round, lock_proposal, from_where) ==
  LET c0 == IF new_round # INIT_ROUND
            THEN report_view_change(c, c.round, view_change_reason(c, c.round, from_where))
            ELSE c
      c1 == [c0 EXCEPT !.round = new_round, !.is_leader = FALSE]
      c2 == set_update_from(c1, from_where)
      c3 == save_wal_with_lock_round(c2, "Propose", lock_round)
      ip == is_proposer(c3)
      cached == None
      c4 == [ip.c EXCEPT !.is_leader = TRUE]
      \* the block, its hash and the PoLC of the proposal to make
      fresh == lock_round = None
      hash == IF fresh THEN Unwrap(c.env.get_block) ELSE Unwrap(lock_proposal)
      block == IF fresh THEN BlockOf(hash) ELSE c4.hash_with_block[hash]
      qc == get_qc_by_id(c4.qcs, c4.height, Unwrap(lock_round), Prevote)
      polc == IF fresh THEN None
              ELSE Some([lock_round |-> Unwrap(lock_round), lock_votes |-> Unwrap(qc)])
      c5 == [c4 EXCEPT !.hash_with_block = MapPutIfAbsent(@, hash, block)]
      proposal == [height |-> c5.height, round |-> c5.round, content |-> block,
                   block_hash |-> hash, lock |-> polc, proposer |-> c5.address]
  IN IF (lock_round # None) # (lock_proposal # None) THEN Fail(c1, "ProposalErr")
     ELSE IF ~IsOk(c2) THEN c2
     ELSE IF ~IsOk(c3) THEN c3
     ELSE IF ip.res = None THEN ip.c
     ELSE IF ~Unwrap(ip.res)
          THEN IF cached # None THEN handle_signed_proposal(ip.c, Unwrap(cached))
               ELSE ip.c
     ELSE IF fresh /\ c.env.get_block = None THEN Fail(c4, "Other:get block")
     ELSE IF ~fresh /\ ~MapHas(c4.hash_with_block, hash) THEN Fail(c4, "ProposalErr")
     ELSE IF ~fresh /\ qc = None THEN Fail(c4, "ProposalErr")
     ELSE IF ~c.env.sign_ok THEN Fail(c5, "CryptoErr")
     ELSE check_block(
            Trigger(broadcast(c5, "SignedProposal", sign_proposal(c5, proposal)),
                    SMRTrigger("Proposal", hash, lock_round, c5.round, c5.height, None)),
            hash, block)

\* handle_new_round: the NewRoundInfo event of SMR.
handle_new_round(c, new_round, lock_round, lock_proposal, from_where) ==
  LET c0 == IF new_round # INIT_ROUND
            THEN report_view_change(c, c.round, view_change_reason(c, c.round, from_where))
            ELSE c
      c1 == [c0 EXCEPT !.round = new_round, !.is_leader = FALSE]
      c2 == set_update_from(c1, from_where)
      c3 == save_wal_with_lock_round(c2, "Propose", lock_round)
      ip == is_proposer(c3)
      cached == ProposalGet(ip.c.proposals, ip.c.height, ip.c.round)
      c4 == [ip.c EXCEPT !.is_leader = TRUE]
      \* the block, its hash and the PoLC of the proposal to make
      fresh == lock_round = None
      hash == IF fresh THEN Unwrap(c.env.get_block) ELSE Unwrap(lock_proposal)
      block == IF fresh THEN BlockOf(hash) ELSE c4.hash_with_block[hash]
      qc == get_qc_by_id(c4.qcs, c4.height, Unwrap(lock_round), Prevote)
      polc == IF fresh THEN None
              ELSE Some([lock_round |-> Unwrap(lock_round), lock_votes |-> Unwrap(qc)])
      c5 == [c4 EXCEPT !.hash_with_block = MapPutIfAbsent(@, hash, block)]
      proposal == [height |-> c5.height, round |-> c5.round, content |-> block,
                   block_hash |-> hash, lock |-> polc, proposer |-> c5.address]
  IN IF (lock_round # None) # (lock_proposal # None) THEN Fail(c1, "ProposalErr")
     ELSE IF ~IsOk(c2) THEN c2
     ELSE IF ~IsOk(c3) THEN c3
     ELSE IF ip.res = None THEN ip.c
     ELSE IF ~Unwrap(ip.res)
          THEN IF cached # None THEN handle_signed_proposal(ip.c, Unwrap(cached))
               ELSE ip.c
     ELSE IF fresh /\ c.env.get_block = None THEN Fail(c4, "Other:get block")
     ELSE IF ~fresh /\ ~MapHas(c4.hash_with_block, hash) THEN Fail(c4, "ProposalErr")
     ELSE IF ~fresh /\ qc = None THEN Fail(c4, "ProposalErr")
     ELSE IF ~c.env.sign_ok THEN Fail(c5, "CryptoErr")
     ELSE check_block(
            Trigger(broadcast(c5, "SignedProposal", sign_proposal(c5, proposal)),
                    SMRTrigger("Proposal", hash, lock_round, c5.round, c5.height, None)),
            hash, block)

\* ------------------------------------------------------- the node's own vote
\* handle_vote_event: sign the vote of (self.height, self.round), save the
\* WAL record of the step, then insert (leader) or transmit (replica) the
\* vote, then vote_process.
\* handle_vote_event signing the empty hash whatever the event asks for.
handle_vote_event_empty(c, hash, vote_type, lock_round) ==
  LET signed_vote == sign_vote(c, [height |-> c.height, round |-> c.round,
                                   vote_type |-> vote_type, block_hash |-> EmptyHash])
      c1 == save_wal_with_lock_round(c, VoteTypeToStep(vote_type), lock_round)
      c2 == [transmit(c1, "SignedVote", signed_vote)
               EXCEPT !.voted = @ \cup {signed_vote.vote}]
  IN IF ~c.env.sign_ok THEN Fail(c, "CryptoErr")
     ELSE IF ~IsOk(c1) THEN c1
     ELSE vote_process(c2, vote_type)

\* handle_vote_event with the vote handed to the network before the save.
handle_vote_event_send_first(c, hash, vote_type, lock_round) ==
  LET signed_vote == sign_vote(c, [height |-> c.height, round |-> c.round,
                                   vote_type |-> vote_type, block_hash |-> hash])
      c1 == [transmit(c, "SignedVote", signed_vote)
               EXCEPT !.voted = @ \cup {signed_vote.vote}]
      c2 == save_wal_with_lock_round(c1, VoteTypeToStep(vote_type), lock_round)
  IN IF ~c.env.sign_ok THEN Fail(c, "CryptoErr")
     ELSE IF ~IsOk(c2) THEN c2
     ELSE vote_process(c2, vote_type)

handle_vote_event(c, hash, vote_type, lock_round) ==
  LET signed_vote == sign_vote(c, [height |-> c.height, round |-> c.round,
                                   vote_type |-> vote_type, block_hash |-> hash])
      c1 == save_wal_with_lock_round(c, VoteTypeToStep(vote_type), lock_round)
      c2 == IF c1.is_leader
            THEN [c1 EXCEPT !.votes = VoteInsert(@, signed_vote),
                            !.fx = Append(@, <<"insert_vote", vote_type>>),
                            !.voted = @ \cup {signed_vote.vote}]
            ELSE [transmit(c1, "SignedVote", signed_vote)
                    EXCEPT !.voted = @ \cup {signed_vote.vote}]
  IN IF ~c.env.sign_ok THEN Fail(c, "CryptoErr")
     ELSE IF ~IsOk(c1) THEN c1
     ELSE vote_process(c2, vote_type)

\* handle_brake: the choke of the round is collected, the Brake record saved,
\* the choke broadcast and the chokes counted.
handle_brake(c, round, lock_round) ==
  LET signed_choke == [signature |-> c.address,
                       choke |-> [height |-> c.height, round |-> c.round,
                                  from |-> c.update_from_where],
                       address |-> c.address]
      c1 == [c EXCEPT !.chokes = ChokeInsert(@, c.round, signed_choke)]
      c2 == save_wal_with_lock_round(c1, "Brake", lock_round)
  IN IF round # c.round THEN Fail(c, "CorrectnessErr")
     ELSE IF ~c.env.sign_ok THEN Fail(c, "CryptoErr")
     ELSE IF ~IsOk(c2) THEN c2
     ELSE check_choke_above_threshold(broadcast(c2, "SignedChoke", signed_choke))

\* next_proposer(height, round): Option<bool>
next_proposer(c, height, round) ==
  LET proposer == get_proposer(c.authority, height, round)
  IN IF proposer = None THEN None ELSE Some(c.address = Unwrap(proposer))

\* handle_commit with the proof's round taken from the State instead of the
\* QC.
handle_commit_own_round(c, hash) ==
  LET qc == get_qc_by_hash(c.qcs, c.height, hash, Precommit)
      content == c.hash_with_block[hash]
      polc == Some([lock_round |-> c.round, lock_votes |-> Unwrap(qc), content |-> content])
      c1 == save_wal(c, "Commit", polc)
      proof == [height |-> c.height, round |-> c.round, block_hash |-> hash,
                signature |-> Unwrap(qc).signature]
      commit == [height |-> c.height, content |-> content, proof |-> proof]
      c2 == [c1 EXCEPT !.commits = Append(@, commit), !.fx = Append(@, <<"commit", hash>>)]
      status == c.env.status
      c3 == [c2 EXCEPT !.authority = AuthUpdate(@, status.authority_list)]
  IN IF ~MapHas(c.hash_with_block, hash) THEN Fail(c, "Other:lose whole block")
     ELSE IF qc = None THEN Fail(c, "StorageErr")
     ELSE IF ~IsOk(c1) THEN c1
     ELSE IF ~c.env.commit_ok THEN Fail(c1, "Other:commit")
     ELSE IF next_proposer(c3, status.height, INIT_ROUND) = None
          THEN Fail(c3, "Other:proposer")
     ELSE goto_new_height(c3, status)

\* handle_commit: the block and the precommit QC of the hash, the Commit WAL
\* record, the application's commit, then the new height of its status.
handle_commit(c, hash) ==
  LET qc == get_qc_by_hash(c.qcs, c.height, hash, Precommit)
      content == c.hash_with_block[hash]
      polc == Some([lock_round |-> c.round, lock_votes |-> Unwrap(qc), content |-> content])
      c1 == save_wal(c, "Commit", polc)
      proof == [height |-> c.height, round |-> Unwrap(qc).round, block_hash |-> hash,
                signature |-> Unwrap(qc).signature]
      commit == [height |-> c.height, content |-> content, proof |-> proof]
      c2 == [c1 EXCEPT !.commits = Append(@, commit), !.fx = Append(@, <<"commit", hash>>)]
      status == c.env.status
      c3 == [c2 EXCEPT !.authority = AuthUpdate(@, status.authority_list)]
  IN IF ~MapHas(c.hash_with_block, hash) THEN Fail(c, "Other:lose whole block")
     ELSE IF qc = None THEN Fail(c, "StorageErr")
     ELSE IF ~IsOk(c1) THEN c1
     ELSE IF ~c.env.commit_ok THEN Fail(c1, "Other:commit")
     ELSE IF next_proposer(c3, status.height, INIT_ROUND) = None
          THEN Fail(c3, "Other:proposer")
     ELSE goto_new_height(c3, status)

\* handle_resp without the test of the prevote QC's round.
handle_resp_any_round(c, resp) ==
  LET c1 == [c EXCEPT !.is_full_transaction = MapPut(@, resp.block_hash, resp.is_pass)]
      pc == get_qc_by_hash(c1.qcs, c1.height, resp.block_hash, Precommit)
      pv == get_qc_by_hash(c1.qcs, c1.height, resp.block_hash, Prevote)
  IN IF resp.height # c.height THEN c
     ELSE IF pc # None
          THEN Trigger(c1, SMRTrigger("PrecommitQC", Unwrap(pc).block_hash, None,
                                      Unwrap(pc).round, Unwrap(pc).height, None))
     ELSE IF pv # None
          THEN Trigger(c1, SMRTrigger("PrevoteQC", Unwrap(pv).block_hash, None,
                                      Unwrap(pv).round, Unwrap(pv).height, None))
     ELSE c1

\* ------------------------------------------------------ check_block answers
\* handle_resp: a VerifyResp of the current height marks the block as checked
\* and releases the QC that was waiting for it.
handle_resp(c, resp) ==
  LET c1 == [c EXCEPT !.is_full_transaction = MapPut(@, resp.block_hash, resp.is_pass)]
      pc == get_qc_by_hash(c1.qcs, c1.height, resp.block_hash, Precommit)
      pv == get_qc_by_hash(c1.qcs, c1.height, resp.block_hash, Prevote)
  IN IF resp.height # c.height THEN c
     ELSE IF pc # None
          THEN Trigger(c1, SMRTrigger("PrecommitQC", Unwrap(pc).block_hash, None,
                                      Unwrap(pc).round, Unwrap(pc).height, None))
     ELSE IF pv # None /\ Unwrap(pv).round = c1.round
          THEN Trigger(c1, SMRTrigger("PrevoteQC", Unwrap(pv).block_hash, None,
                                      Unwrap(pv).round, Unwrap(pv).height, None))
     ELSE c1

\* ---------------------------------------------------------------- dispatch
\* handle_msg without the test of the consensus power.
handle_msg_any_power(c, m) ==
  IF m.kind = "SignedProposal" THEN handle_signed_proposal(c, m.msg)
  ELSE IF m.kind = "AggregatedVote" THEN handle_aggregated_vote(c, m.msg)
  ELSE IF m.kind = "SignedVote" THEN handle_signed_vote(c, m.msg)
  ELSE IF m.kind = "SignedChoke" THEN handle_signed_choke(c, m.msg)
  ELSE IF m.kind = "RichStatus" THEN goto_new_height(c, m.msg)
  ELSE [Trigger(c, SMRTrigger("Stop", EmptyHash, None, c.round, c.height, None))
          EXCEPT !.stopped = TRUE]

\* The error of a handler is logged and swallowed: it stays in c.err for the
\* record, the fields it changed before failing stay changed.
\* handle_msg: a verified message; m is [kind, msg].
handle_msg(c, m) ==
  IF ~c.consensus_power /\ m.kind # "RichStatus" THEN c
  ELSE IF m.kind = "SignedProposal" THEN handle_signed_proposal(c, m.msg)
  ELSE IF m.kind = "AggregatedVote" THEN handle_aggregated_vote(c, m.msg)
  ELSE IF m.kind = "SignedVote" THEN handle_signed_vote(c, m.msg)
  ELSE IF m.kind = "SignedChoke" THEN handle_signed_choke(c, m.msg)
  ELSE IF m.kind = "RichStatus" THEN goto_new_height(c, m.msg)
  ELSE [Trigger(c, SMRTrigger("Stop", EmptyHash, None, c.round, c.height, None))
          EXCEPT !.stopped = TRUE]

\* What handle_msg returns, c being the context it leaves: the error of a
\* message handler is logged inside and Ok(()) returned; only the `?` on the
\* send of the Stop trigger comes back to run.
handle_msg_result(c, m) ==
  IF (~c.consensus_power /\ m.kind # "RichStatus") \/ m.kind # "Stop" THEN Ok ELSE c.err

\* An SMREvent, all variants in one record shape.
SMREvent(type, height, round, hash, lock_round, lock_proposal, from_where) ==
  [type |-> type, height |-> height, round |-> round, block_hash |-> hash,
   lock_round |-> lock_round, lock_proposal |-> lock_proposal,
   from_where |-> from_where]

\* handle_event: only Brake looks at the height the event was made for.
handle_event(c, e) ==
  IF e.type = "NewRoundInfo"
    THEN handle_new_round(c, e.round, e.lock_round, e.lock_proposal, e.from_where)
  ELSE IF e.type = "PrevoteVote" THEN handle_vote_event(c, e.block_hash, Prevote, e.lock_round)
  ELSE IF e.type = "PrecommitVote"
    THEN handle_vote_event(c, e.block_hash, Precommit, e.lock_round)
  ELSE IF e.type = "Commit" THEN handle_commit(c, e.block_hash)
  ELSE IF e.height # c.height THEN c
  ELSE handle_brake(c, e.round, e.lock_round)

\* ---------------------------------------------------------------- recovery
\* WalLock::to_lock
to_lock(wal_lock) == [round |-> wal_lock.lock_round, hash |-> wal_lock.lock_votes.block_hash]

\* WalInfo::into_smr_base that leaves the lock out.
into_smr_base_unlocked(wal_info) ==
  [height |-> wal_info.height, round |-> wal_info.round, step |-> wal_info.step,
   polc |-> None]

\* WalInfo::into_smr_base
into_smr_base(wal_info) ==
  [height |-> wal_info.height, round |-> wal_info.round, step |-> wal_info.step,
   polc |-> IF wal_info.lock = None THEN None ELSE Some(to_lock(Unwrap(wal_info.lock)))]

\* wal_lost: no WAL record at a height above INIT_HEIGHT.
wal_lost(c) ==
  Trigger(c, SMRTrigger("WalInfo", EmptyHash, None, c.round, c.height,
                        Some([height |-> c.height, round |-> c.round,
                              step |-> "Propose", polc |-> None])))

\* start_with_wal that does not brake again from a Brake record.
start_with_wal_no_brake(c) ==
  LET wal_info == Unwrap(c.wal)
      c1 == [c EXCEPT !.height = wal_info.height, !.round = wal_info.round]
      ip == is_proposer(c1)
      c2 == [ip.c EXCEPT !.update_from_where = wal_info.from]
      lock == Unwrap(wal_info.lock)
      c3 == IF wal_info.lock = None THEN c2
            ELSE [c2 EXCEPT !.qcs = QcSet(@, lock.lock_votes),
                            !.hash_with_block = MapPut(@, lock.lock_votes.block_hash,
                                                       lock.content)]
      c4 == c3
  IN IF ~c.consensus_power THEN c
     ELSE IF ~c.env.load_ok THEN Fail(c, "LoadWalErr")
     ELSE IF c.wal = None
          THEN IF c.height # INIT_HEIGHT THEN wal_lost(c) ELSE c
     ELSE IF ip.res = None THEN ip.c
     ELSE IF wal_info.step = "Commit"
          THEN IF wal_info.lock = None THEN Fail(c3, "LoadWalErr")
               ELSE handle_commit(c3, lock.lock_votes.block_hash)
     ELSE IF ~IsOk(c4) THEN c4
     ELSE Trigger(c4, SMRTrigger("WalInfo", EmptyHash, None, c4.round, c4.height,
                                 Some(into_smr_base(wal_info))))

\* start_with_wal: restore height, round, leadership, update_from and the
\* lock from the WAL record; a Commit record commits again, a Brake record
\* brakes again; SMR gets the WalInfo trigger.
start_with_wal(c) ==
  LET wal_info == Unwrap(c.wal)
      c1 == [c EXCEPT !.height = wal_info.height, !.round = wal_info.round]
      ip == is_proposer(c1)
      c2 == [ip.c EXCEPT !.update_from_where = wal_info.from]
      lock == Unwrap(wal_info.lock)
      c3 == IF wal_info.lock = None THEN c2
            ELSE [c2 EXCEPT !.qcs = QcSet(@, lock.lock_votes),
                            !.hash_with_block = MapPut(@, lock.lock_votes.block_hash,
                                                       lock.content)]
      c4 == IF wal_info.step = "Brake"
            THEN handle_brake(c3, c3.round,
                              IF wal_info.lock = None THEN None ELSE Some(lock.lock_round))
            ELSE c3
  IN IF ~c.consensus_power THEN c
     ELSE IF ~c.env.load_ok THEN Fail(c, "LoadWalErr")
     ELSE IF c.wal = None
          THEN IF c.height # INIT_HEIGHT THEN wal_lost(c) ELSE c
     ELSE IF ip.res = None THEN ip.c
     ELSE IF wal_info.step = "Commit"
          THEN IF wal_info.lock = None THEN Fail(c3, "LoadWalErr")
               ELSE handle_commit(c3, lock.lock_votes.block_hash)
     ELSE IF ~IsOk(c4) THEN c4
     ELSE Trigger(c4, SMRTrigger("WalInfo", EmptyHash, None, c4.round, c4.height,
                                 Some(into_smr_base(wal_info))))

\* ---------------------------------------------------------------- the SMR
\* The state machine task: [height, round, step, lock]; lock is an
\* Option<Lock>, a Lock is [round, hash]. smr_trigger gives the new SMR state
\* and the events thrown to State, in order. Triggers of another height or of
\* a past round are ignored, and so is everything but NewHeight and WalInfo
\* once the step is Commit.
FromWhere(tag, round) == [tag |-> tag, round |-> round]

SmrInit == [height |-> INIT_HEIGHT, round |-> INIT_ROUND, step |-> "Propose", lock |-> None]

LockRound(lock) == IF lock = None THEN None ELSE Some(Unwrap(lock).round)
LockHash(lock) == IF lock = None THEN None ELSE Some(Unwrap(lock).hash)

Quiet(s) == [s |-> s, ev |-> <<>>]

\* The lock update rule on a prevote QC: lock <- {round, hash} for a hash
\* that is not empty.
update_polc(lock, hash, round) ==
  IF hash = EmptyHash THEN lock ELSE Some([round |-> round, hash |-> hash])

NewRoundInfo(s, round, from_where) ==
  SMREvent("NewRoundInfo", s.height, round, EmptyHash, LockRound(s.lock),
           LockHash(s.lock), from_where)

smr_new_height(s, t) ==
  IF t.height <= s.height THEN Quiet(s)
  ELSE LET s1 == [height |-> t.height, round |-> INIT_ROUND, step |-> "Propose",
                  lock |-> None]
       IN [s |-> s1, ev |-> <<NewRoundInfo(s1, INIT_ROUND, FromWhere("PrecommitQC", U64_MAX))>>]

smr_wal_info(s, t) ==
  LET b == Unwrap(t.wal_info)
  IN Quiet([height |-> b.height, round |-> b.round, step |-> b.step, lock |-> b.polc])

\* Proposal: a locked node prevotes the hash of its lock.
smr_proposal(s, t) ==
  IF t.round # s.round \/ s.step # "Propose" THEN Quiet(s)
  ELSE IF t.source = "State" /\ t.hash = EmptyHash THEN Quiet(s)
  ELSE LET hash == IF s.lock # None THEN Unwrap(s.lock).hash
                   ELSE IF t.source = "Timer" THEN EmptyHash ELSE t.hash
       IN [s |-> [s EXCEPT !.step = "Prevote"],
           ev |-> <<SMREvent("PrevoteVote", s.height, s.round, hash, LockRound(s.lock),
                             None, FromWhere("PrevoteQC", s.round))>>]

smr_prevote_qc(s, t) ==
  IF t.round < s.round THEN Quiet(s)
  ELSE IF t.source = "Timer"
       THEN IF t.round # s.round \/ s.step # "Prevote" THEN Quiet(s)
            ELSE [s |-> [s EXCEPT !.step = "Precommit"],
                  ev |-> <<SMREvent("PrecommitVote", s.height, s.round, EmptyHash,
                                    LockRound(s.lock), None, FromWhere("PrevoteQC", s.round))>>]
  ELSE LET lock == update_polc(s.lock, t.hash, t.round)
       IN IF t.round > s.round
          THEN LET s1 == [s EXCEPT !.round = t.round + 1, !.step = "Propose", !.lock = lock]
               IN [s |-> s1,
                   ev |-> <<NewRoundInfo(s1, t.round + 1, FromWhere("PrevoteQC", t.round))>>]
          ELSE IF s.step \notin {"Propose", "Prevote"} THEN Quiet(s)
          ELSE [s |-> [s EXCEPT !.step = "Precommit", !.lock = lock],
                ev |-> <<SMREvent("PrecommitVote", s.height, s.round, t.hash,
                                  LockRound(lock), None, FromWhere("PrevoteQC", s.round))>>]

smr_precommit_qc(s, t) ==
  IF t.round < s.round THEN Quiet(s)
  ELSE IF t.source = "Timer"
       THEN IF t.round # s.round \/ s.step # "Precommit" THEN Quiet(s)
            ELSE [s |-> [s EXCEPT !.step = "Brake"],
                  ev |-> <<SMREvent("Brake", s.height, s.round, EmptyHash,
                                    LockRound(s.lock), None, FromWhere("PrevoteQC", s.round))>>]
  ELSE IF t.hash # EmptyHash
       THEN [s |-> [s EXCEPT !.step = "Commit"],
             ev |-> <<SMREvent("Commit", s.height, s.round, t.hash, None, None,
                               FromWhere("PrecommitQC", t.round))>>]
  ELSE LET s1 == [s EXCEPT !.round = t.round + 1, !.step = "Propose"]
       IN [s |-> s1,
           ev |-> <<NewRoundInfo(s1, t.round + 1, FromWhere("PrecommitQC", t.round))>>]

smr_brake_timeout(s, t) ==
  IF t.round # s.round \/ s.step # "Brake" THEN Quiet(s)
  ELSE [s |-> s,
        ev |-> <<SMREvent("Brake", s.height, s.round, EmptyHash, LockRound(s.lock),
                          None, FromWhere("PrevoteQC", s.round))>>]

smr_continue_round(s, t) ==
  IF t.round <= s.round THEN Quiet(s)
  ELSE LET s1 == [s EXCEPT !.round = t.round, !.step = "Propose"]
       IN [s |-> s1, ev |-> <<NewRoundInfo(s1, t.round, FromWhere("ChokeQC", t.round - 1))>>]

\* smr_trigger without the test of the trigger's height.
smr_trigger_any_height(s, t) ==
  IF t.trigger_type = "NewHeight" THEN smr_new_height(s, t)
  ELSE IF t.trigger_type = "WalInfo" THEN smr_wal_info(s, t)
  ELSE IF t.trigger_type = "Stop" \/ s.step = "Commit" THEN Quiet(s)
  ELSE IF t.trigger_type = "Proposal" THEN smr_proposal(s, t)
  ELSE IF t.trigger_type = "PrevoteQC" THEN smr_prevote_qc(s, t)
  ELSE IF t.trigger_type = "PrecommitQC" THEN smr_precommit_qc(s, t)
  ELSE IF t.trigger_type = "BrakeTimeout" THEN smr_brake_timeout(s, t)
  ELSE smr_continue_round(s, t)

smr_trigger(s, t) ==
  IF t.trigger_type = "NewHeight" THEN smr_new_height(s, t)
  ELSE IF t.trigger_type = "WalInfo" THEN smr_wal_info(s, t)
  ELSE IF t.trigger_type = "Stop" \/ t.height # s.height \/ s.step = "Commit" THEN Quiet(s)
  ELSE IF t.trigger_type = "Proposal" THEN smr_proposal(s, t)
  ELSE IF t.trigger_type = "PrevoteQC" THEN smr_prevote_qc(s, t)
  ELSE IF t.trigger_type = "PrecommitQC" THEN smr_precommit_qc(s, t)
  ELSE IF t.trigger_type = "BrakeTimeout" THEN smr_brake_timeout(s, t)
  ELSE smr_continue_round(s, t)

\* The timer's trigger for the step the SMR is in.
timer_trigger(s) ==
  [SMRTrigger(IF s.step = "Propose" THEN "Proposal"
              ELSE IF s.step = "Prevote" THEN "PrevoteQC"
              ELSE IF s.step = "Precommit" THEN "PrecommitQC"
              ELSE "BrakeTimeout",
              EmptyHash, None, s.round, s.height, None)
     EXCEPT !.source = "Timer"]

\* ============================================================== the system
\* No value is on its way through the codec.
CodecIdle == [phase |-> "idle"]

VARIABLES
  state,       \* node -> the fields of its State
  smr,         \* node -> its SMR
  events,      \* node -> the SMR events not yet handled by State (FIFO)
  triggers,    \* node -> the triggers not yet handled by the SMR (FIFO)
  verify_sig,  \* node -> the verified messages not yet handled (FIFO)
  checking,    \* node -> the check_block tasks that have not answered
  wal,         \* node -> the WAL record (an Option)
  net,         \* the messages in flight between nodes
  voted,       \* node -> every vote the node has signed and emitted
  committed,   \* node -> the Commits handed to the application, in order
  checked,     \* node -> the (height, hash) of the check_block answers State recorded
  last,        \* what the last step was and what it did
  budget,      \* the environment moves left: [net, fault, timer]
  codec,       \* a value on its way through the wire codec
  task         \* per node: the State task is "running", "ended" or "panicked"

vars == <<state, smr, events, triggers, verify_sig, checking, wal, net, voted,
          committed, checked, last, budget, codec, task>>

\* The validators: address 1 carries twice the vote weight of the others, and
\* validator 3 leaves the set when height 1 is decided.
AuthorityList ==
  {[address |-> a, vote_weight |-> IF a = 1 THEN 2 ELSE 1] : a \in Addresses}

AuthorityAt(height) ==
  IF height <= 1 THEN AuthorityList ELSE {n \in AuthorityList : n.address # 3}

\* The Status of a height: what the application answers a commit with and
\* what a RichStatus carries.
StatusOf(height) == [height |-> height, authority_list |-> AuthorityAt(height)]

\* State::new
new(addr, init_height, authority_list) ==
  LET auth == AuthUpdate([current |-> <<>>, last |-> <<>>], authority_list)
  IN [height |-> init_height, round |-> INIT_ROUND,
      consensus_power |-> AuthContains(auth, addr), address |-> addr,
      proposals |-> {}, votes |-> {}, qcs |-> {}, chokes |-> {}, choke_qcs |-> {},
      authority |-> auth, hash_with_block |-> EmptyMap,
      is_full_transaction |-> EmptyMap, is_leader |-> FALSE,
      leader_address |-> DefaultAddress,
      update_from_where |-> [tag |-> "PrecommitQC", qc |-> mock_init_qc],
      stopped |-> FALSE]

\* What the collaborators answer during one handler call.
Env(fault, hash) ==
  [wal_ok |-> fault # "wal", sign_ok |-> fault # "sign", commit_ok |-> fault # "commit",
   load_ok |-> fault # "load", get_block |-> IF fault = "get_block" THEN None ELSE Some(hash),
   err_first |-> fault = "err_first"]

Faults == {"none", "wal", "sign", "commit", "get_block", "err_first"}

\* The context a handler starts from: the fields st of a State, the WAL
\* record w and the collaborators' answers env.
CtxOf(st, w, env) ==
     [height |-> st.height, round |-> st.round, consensus_power |-> st.consensus_power,
      address |-> st.address, proposals |-> st.proposals, votes |-> st.votes,
      qcs |-> st.qcs, chokes |-> st.chokes, choke_qcs |-> st.choke_qcs,
      authority |-> st.authority, hash_with_block |-> st.hash_with_block,
      is_full_transaction |-> st.is_full_transaction, is_leader |-> st.is_leader,
      leader_address |-> st.leader_address, update_from_where |-> st.update_from_where,
      stopped |-> st.stopped,
      wal |-> w,
      env |-> [wal_ok |-> env.wal_ok, sign_ok |-> env.sign_ok, commit_ok |-> env.commit_ok,
               load_ok |-> env.load_ok, get_block |-> env.get_block,
               err_first |-> env.err_first, status |-> StatusOf(st.height + 1)],
      trig |-> <<>>, out |-> <<>>, chk |-> {}, pv |-> {}, commits |-> <<>>,
      views |-> <<>>, fx |-> <<>>, voted |-> {}, err |-> Ok]

\* The context a handler of node n starts from.
Ctx(n, env) == CtxOf(state[n], wal[n], env)

\* The fields of State in a context.
StateOf(c) ==
  [height |-> c.height, round |-> c.round, consensus_power |-> c.consensus_power,
   address |-> c.address, proposals |-> c.proposals, votes |-> c.votes,
   qcs |-> c.qcs, chokes |-> c.chokes, choke_qcs |-> c.choke_qcs,
   authority |-> c.authority, hash_with_block |-> c.hash_with_block,
   is_full_transaction |-> c.is_full_transaction, is_leader |-> c.is_leader,
   leader_address |-> c.leader_address, update_from_where |-> c.update_from_where,
   stopped |-> c.stopped]

\* ---------------------------------------------------- signature verification
\* The voters a bitmap marks, over the authority list in its order.
BitmapVoters(auth, bitmap) ==
  {auth.current[i].address : i \in {j \in 1 .. Len(auth.current) : bitmap[j]}}

\* verify_aggregated_signature of a QC against an authority: the bitmap spans
\* the list, the signatures are those of the marked voters in address order,
\* and the marked weight is above the threshold.
QcValid(auth, qc) ==
  /\ Len(qc.signature.address_bitmap) = Len(auth.current)
  /\ qc.signature.signature = SortSet(BitmapVoters(auth, qc.signature.address_bitmap))
  /\ AboveThreshold(SumVoterWeights(auth, BitmapVoters(auth, qc.signature.address_bitmap)),
                    get_vote_weight_sum(auth))

\* parallel_verify: TRUE when the message goes on to the verify_sig channel.
SigValid(auth, m) ==
  IF m.kind = "SignedProposal"
    THEN /\ m.msg.signature = m.msg.proposal.proposer
         /\ m.msg.proposal.lock # None =>
              QcValid(auth, Unwrap(m.msg.proposal.lock).lock_votes)
  ELSE IF m.kind = "SignedVote" THEN m.msg.signature = m.msg.voter
  ELSE IF m.kind = "AggregatedVote" THEN QcValid(auth, m.msg)
  ELSE IF m.kind = "SignedChoke" THEN m.msg.signature = m.msg.address
  ELSE TRUE

\* OverlordMsg::get_height is unreachable!() for a message that is none of
\* the five below: the task panics.
get_height_panics(m) ==
  m.kind \notin {"SignedProposal", "SignedVote", "AggregatedVote", "RichStatus", "SignedChoke"}

\* OverlordMsg::get_height
get_height(m) ==
  IF m.kind = "SignedProposal" THEN m.msg.proposal.height
  ELSE IF m.kind = "SignedVote" THEN m.msg.vote.height
  ELSE IF m.kind = "SignedChoke" THEN m.msg.choke.height
  ELSE m.msg.height

\* The orders in which a set of verifications can complete.
Orders(S) ==
  {q \in [1 .. Cardinality(S) -> S] : \A i, j \in 1 .. Cardinality(S) : q[i] = q[j] => i = j}

Nodes == DOMAIN state

\* The messages of a handler's output that reach a node of the system.
Sent(n, out) ==
  UNION {{[to |-> d, kind |-> out[i].kind, msg |-> out[i].msg] :
            d \in {x \in Nodes \ {n} : out[i].to = None \/ x \in out[i].to}} :
         i \in 1 .. Len(out)}

\* The end of a handler call of node n: its context becomes the node's state
\* and its effects reach the channels. rest is what is left of verify_sig,
\* pending the check_block tasks still running.
Finish(n, op, c, rest, pending, cost) ==
  /\ state' = [state EXCEPT ![n] = StateOf(c)]
  /\ wal' = [wal EXCEPT ![n] = c.wal]
  /\ triggers' = [triggers EXCEPT ![n] = @ \o c.trig]
  /\ checking' = [checking EXCEPT ![n] = pending \cup c.chk]
  /\ \E q \in Orders({m \in c.pv : SigValid(c.authority, m)}) :
       verify_sig' = [verify_sig EXCEPT ![n] = rest \o q]
  /\ net' = net \cup Sent(n, c.out)
  /\ voted' = [voted EXCEPT ![n] = @ \cup c.voted]
  /\ committed' = [committed EXCEPT ![n] = @ \o c.commits]
  /\ last' = [node |-> n, op |-> op, err |-> c.err, fx |-> c.fx,
              trig |-> c.trig, out |-> c.out, chk |-> c.chk, views |-> c.views]
  /\ UNCHANGED <<codec, task>>
  /\ budget' = [budget EXCEPT !.fault = @ - cost]

\* A collaborator fails during a call only if the call is made: the fault is
\* one whose outcome differs from the outcome without it.
Faulted(fault, c, c0) ==
  fault = "none" \/ (budget.fault > 0 /\ [c EXCEPT !.env = c0.env] # c0)
Cost(fault) == IF fault = "none" THEN 0 ELSE 1
FaultsLeft == IF budget.fault > 0 THEN Faults ELSE {"none"}

\* ------------------------------------------------------------------ actions
\* run, the raw_rx branch: a RichStatus and a message of a later height go
\* straight to verify_sig, a message of the current height goes through
\* parallel_verify, a message of an earlier height is dropped.
Raw(n, m) ==
  LET panic == m.kind # "RichStatus" /\ get_height_panics(m)
      pass == \/ m.kind = "RichStatus"
              \/ state[n].height < get_height(m)
              \/ state[n].height = get_height(m) /\ SigValid(state[n].authority, m)
  IN /\ verify_sig' = [verify_sig EXCEPT ![n] =
                         IF ~panic /\ pass THEN Append(@, m) ELSE @]
     /\ task' = [task EXCEPT ![n] = IF panic THEN "panicked" ELSE @]
     /\ last' = [node |-> n, op |-> "raw", err |-> Ok, fx |-> <<<<"raw_rx", m.kind>>>>,
                 trig |-> <<>>, out |-> <<>>, chk |-> {}, views |-> <<>>]
     /\ UNCHANGED codec

\* The environment hands message m to node n while fewer than limit messages
\* wait on its verify_sig channel.
InjectUpTo(n, m, limit) ==
  /\ budget.net > 0
  /\ Len(verify_sig[n]) < limit
  /\ task[n] = "running"
  /\ Raw(n, m)
  /\ budget' = [budget EXCEPT !.net = @ - 1]
  /\ UNCHANGED <<state, smr, events, triggers, checking, wal, net, voted, committed,
                 checked>>

\* The environment hands message m to node n.
Inject(n, m) == InjectUpTo(n, m, MaxQueue)

\* A message of another node arrives.
Deliver(m) ==
  /\ m \in net
  /\ task[m.to] = "running"
  /\ Raw(m.to, [kind |-> m.kind, msg |-> m.msg])
  /\ net' = net \ {m}
  /\ UNCHANGED <<state, smr, events, triggers, checking, wal, voted, committed, checked,
                 budget>>

\* run, the verify_sig branch: the error handle_msg returns goes to
\* report_error.
reported(c, m) ==
  IF handle_msg_result(c, m) = Ok THEN c
  ELSE [c EXCEPT !.fx = Append(@, <<"report_error", handle_msg_result(c, m)>>)]

HandleMsg(n) ==
  /\ verify_sig[n] # <<>>
  /\ task[n] = "running"
  /\ \E fault \in FaultsLeft :
       LET m == Head(verify_sig[n])
           c == reported(handle_msg(Ctx(n, Env(fault, EmptyHash)), m), m)
           c0 == reported(handle_msg(Ctx(n, Env("none", EmptyHash)), m), m)
       IN /\ Faulted(fault, c, c0)
          /\ Finish(n, "handle_msg", c, Tail(verify_sig[n]), checking[n], Cost(fault))
  /\ UNCHANGED <<smr, events, checked>>

\* run, the event branch: once stopped the loop breaks; without consensus
\* power the event is dropped. The application answers a commit with the
\* status of the next height, or with a status of the node's height that
\* carries one of the authority lists in stale.
HandleEventOn(n, stale) ==
  /\ events[n] # <<>>
  /\ task[n] = "running"
  /\ IF state[n].stopped
     THEN /\ task' = [task EXCEPT ![n] = "ended"]
          /\ last' = [node |-> n, op |-> "break", err |-> Ok, fx |-> <<>>,
                      trig |-> <<>>, out |-> <<>>, chk |-> {}, views |-> <<>>]
          /\ UNCHANGED <<state, wal, triggers, checking, verify_sig, net, voted,
                         committed, budget, codec>>
     ELSE \E fault \in FaultsLeft,
             hash \in IF Head(events[n]).type = "NewRoundInfo"
                      THEN BlockHashes ELSE {EmptyHash},
             status \in IF Head(events[n]).type = "Commit"
                        THEN {StatusOf(state[n].height + 1)}
                               \cup {[height |-> state[n].height, authority_list |-> l] :
                                       l \in stale}
                        ELSE {StatusOf(state[n].height + 1)} :
            LET e == Head(events[n])
                at(f) == [Ctx(n, Env(f, hash)) EXCEPT !.env.status = status]
                c == IF state[n].consensus_power
                     THEN handle_event(at(fault), e)
                     ELSE at(fault)
                c0 == IF state[n].consensus_power
                      THEN handle_event(at("none"), e)
                      ELSE at("none")
            IN /\ Faulted(fault, c, c0)
               /\ Finish(n, "handle_event", c, verify_sig[n], checking[n], Cost(fault))
  /\ events' = [events EXCEPT ![n] = Tail(@)]
  /\ UNCHANGED <<smr, checked>>

\* The event branch with an application that answers a commit with the
\* status of the next height.
HandleEvent(n) == HandleEventOn(n, {})

\* run, the verify_resp branch: check_block task t answers that the block
\* passes.
HandleResp(n, t) ==
  /\ t \in checking[n]
  /\ task[n] = "running"
  /\ LET resp == [height |-> t.height, round |-> t.round, block_hash |-> t.block_hash,
                  is_pass |-> TRUE]
         c == IF state[n].consensus_power
              THEN handle_resp(Ctx(n, Env("none", EmptyHash)), resp)
              ELSE Ctx(n, Env("none", EmptyHash))
     IN Finish(n, "handle_resp", c, verify_sig[n], checking[n] \ {t}, 0)
  /\ checked' = [checked EXCEPT ![n] =
                   IF state[n].consensus_power /\ t.height = state[n].height
                   THEN @ \cup {[height |-> t.height, block_hash |-> t.block_hash]}
                   ELSE @]
  /\ UNCHANGED <<smr, events>>

\* check_current_block: the application rejects the block; the task ends
\* without an answer.
CheckFail(n, t) ==
  /\ t \in checking[n]
  /\ checking' = [checking EXCEPT ![n] = @ \ {t}]
  /\ last' = [node |-> n, op |-> "check_fail", err |-> "Other:check block",
              fx |-> <<>>, trig |-> <<>>, out |-> <<>>, chk |-> {}, views |-> <<>>]
  /\ UNCHANGED <<codec, task>>
  /\ UNCHANGED <<state, smr, events, triggers, verify_sig, wal, net, voted, committed,
                 checked, budget>>

\* The SMR task takes the next trigger.
SmrStep(n) ==
  /\ triggers[n] # <<>>
  /\ LET t == Head(triggers[n])
         r == smr_trigger(smr[n], t)
     IN /\ smr' = [smr EXCEPT ![n] = r.s]
        /\ events' = [events EXCEPT ![n] = @ \o r.ev]
        /\ last' = [node |-> n, op |-> "smr", err |-> Ok, fx |-> <<>>,
                    trig |-> <<>>, out |-> <<>>, chk |-> {}, views |-> <<>>]
        /\ UNCHANGED <<codec, task>>
  /\ triggers' = [triggers EXCEPT ![n] = Tail(@)]
  /\ UNCHANGED <<state, verify_sig, checking, wal, net, voted, committed, checked,
                 budget>>

\* The timer of the SMR's step fires (a timer of an earlier step is
\* discarded by its tag).
Timeout(n) ==
  /\ budget.timer > 0
  /\ smr[n].height > INIT_HEIGHT
  /\ smr[n].step # "Commit"
  /\ smr[n].round <= MaxRound
  /\ LET t == timer_trigger(smr[n])
         r == smr_trigger(smr[n], t)
     IN /\ smr' = [smr EXCEPT ![n] = r.s]
        /\ events' = [events EXCEPT ![n] = @ \o r.ev]
        /\ last' = [node |-> n, op |-> "timeout", err |-> Ok, fx |-> <<>>,
                    trig |-> <<>>, out |-> <<>>, chk |-> {}, views |-> <<>>]
        /\ UNCHANGED <<codec, task>>
  /\ budget' = [budget EXCEPT !.timer = @ - 1]
  /\ UNCHANGED <<state, triggers, verify_sig, checking, wal, net, voted, committed,
                 checked>>

\* The process dies and starts again: everything but the WAL record is lost,
\* State::new and a fresh SMR, then start_with_wal.
Restart(n) ==
  /\ budget.fault > 0
  /\ task[n] = "running"
  /\ state[n].height > INIT_HEIGHT
  /\ LET fresh == new(n, INIT_HEIGHT, AuthorityAt(state[n].height))
         c == start_with_wal([Ctx(n, Env("none", EmptyHash)) EXCEPT
                !.height = fresh.height, !.round = fresh.round,
                !.consensus_power = fresh.consensus_power,
                !.proposals = fresh.proposals, !.votes = fresh.votes, !.qcs = fresh.qcs,
                !.chokes = fresh.chokes, !.choke_qcs = fresh.choke_qcs,
                !.authority = fresh.authority, !.hash_with_block = fresh.hash_with_block,
                !.is_full_transaction = fresh.is_full_transaction,
                !.is_leader = fresh.is_leader, !.leader_address = fresh.leader_address,
                !.update_from_where = fresh.update_from_where,
                !.stopped = fresh.stopped,
                !.env.status = StatusOf(Unwrap(wal[n]).height + 1)])
     IN /\ wal[n] # None
        /\ state' = [state EXCEPT ![n] = StateOf(c)]
        /\ wal' = [wal EXCEPT ![n] = c.wal]
        /\ smr' = [smr EXCEPT ![n] = SmrInit]
        /\ events' = [events EXCEPT ![n] = <<>>]
        /\ triggers' = [triggers EXCEPT ![n] = c.trig]
        /\ checking' = [checking EXCEPT ![n] = c.chk]
        /\ \E q \in Orders({m \in c.pv : SigValid(c.authority, m)}) :
             verify_sig' = [verify_sig EXCEPT ![n] = q]
        /\ net' = net \cup Sent(n, c.out)
        /\ voted' = [voted EXCEPT ![n] = @ \cup c.voted]
        /\ committed' = [committed EXCEPT ![n] = @ \o c.commits]
        /\ last' = [node |-> n, op |-> "start_with_wal", err |-> c.err,
                    fx |-> c.fx, trig |-> c.trig, out |-> c.out, chk |-> c.chk,
                    views |-> c.views]
        /\ UNCHANGED <<codec, task, checked>>
  /\ budget' = [budget EXCEPT !.fault = @ - 1]

\* ---------------------------------------------------------- the environment
\* The authority list of a height as AuthorityManage holds it.
AuthOf(h) == AuthUpdate([current |-> <<>>, last |-> <<>>], AuthorityAt(h))

\* The proposer of (h, r) under the authority of height h.
Leader(h, r) == Unwrap(get_proposer(AuthOf(h), h, r))

Heights == 1 .. MaxHeight
Rounds == 0 .. MaxRound

Msg(kind, msg) == [kind |-> kind, msg |-> msg]

\* An aggregated vote of height h signed by the voters S.
QcOf(S, vote_type, h, r, hash) ==
  [signature |-> [signature |-> SortSet(S), address_bitmap |-> AddressBitmap(AuthOf(h), S)],
   vote_type |-> vote_type, height |-> h, round |-> r, block_hash |-> hash,
   leader |-> Leader(h, r)]

\* A signed proposal of content BlockOf(hash); polc is its Option<PoLC>.
ProposalOf(proposer, h, r, hash, polc) ==
  [signature |-> proposer,
   proposal |-> [height |-> h, round |-> r, content |-> BlockOf(hash),
                 block_hash |-> hash, lock |-> polc, proposer |-> proposer]]

VoteOf(voter, vote_type, h, r, hash) ==
  [voter |-> voter, signature |-> voter,
   vote |-> [height |-> h, round |-> r, vote_type |-> vote_type, block_hash |-> hash]]

ChokeOf(a, h, r) ==
  [signature |-> a, address |-> a,
   choke |-> [height |-> h, round |-> r,
              from |-> [tag |-> "PrecommitQC", qc |-> mock_init_qc]]]

\* The node under study, and the others.
Self == Cardinality(Addresses)
Others == Addresses \ {Self}

Statuses == {Msg("RichStatus", StatusOf(h)) : h \in Heights}

\* Proposals of round 0: by the proposer of (1, 0), by validator 3 and by an
\* address outside the authority list.
Proposals ==
  {Msg("SignedProposal", ProposalOf(p, h, INIT_ROUND, hash, None)) :
     h \in Heights, hash \in BlockHashes,
     p \in {Leader(1, INIT_ROUND), 3, Outsider}}

\* ------------------------------------------------------ the specifications
InitOf(nodes, b) ==
  /\ state = [n \in nodes |-> new(n, INIT_HEIGHT, AuthorityAt(INIT_HEIGHT))]
  /\ smr = [n \in nodes |-> SmrInit]
  /\ events = [n \in nodes |-> <<>>]
  /\ triggers = [n \in nodes |-> <<>>]
  /\ verify_sig = [n \in nodes |-> <<>>]
  /\ checking = [n \in nodes |-> {}]
  /\ wal = [n \in nodes |-> None]
  /\ net = {}
  /\ voted = [n \in nodes |-> {}]
  /\ committed = [n \in nodes |-> <<>>]
  /\ checked = [n \in nodes |-> {}]
  /\ last = [node |-> DefaultAddress, op |-> "new", err |-> Ok,
             fx |-> <<>>, trig |-> <<>>, out |-> <<>>, chk |-> {}, views |-> <<>>]
  /\ budget = b
  /\ codec = CodecIdle
  /\ task = [n \in nodes |-> "running"]

\* What a running node does by itself.
Steady(n) ==
  \/ HandleMsg(n)
  \/ HandleEvent(n)
  \/ \E t \in checking[n] : HandleResp(n, t)
  \/ \E t \in checking[n] : CheckFail(n, t)
  \/ SmrStep(n)

\* One node, from its construction, in an environment that hands it statuses
\* and proposals; a collaborator call may fail and the node may crash.
Init == InitOf({Self}, [net |-> MaxNet, fault |-> MaxFault, timer |-> 0])

Next ==
  \/ \E m \in Statuses \cup Proposals : Inject(Self, m)
  \/ Steady(Self)
  \/ Restart(Self)

Spec == Init /\ [][Next]_vars

\* A node that has handled the RichStatus of height 1: the context at the end
\* of that handle_msg.
Started(n) ==
  handle_msg(CtxOf(new(n, INIT_HEIGHT, AuthorityAt(INIT_HEIGHT)), None,
                   Env("none", EmptyHash)),
             Msg("RichStatus", StatusOf(1)))

InitStarted(nodes, b) ==
  /\ state = [n \in nodes |-> StateOf(Started(n))]
  /\ smr = [n \in nodes |-> SmrInit]
  /\ events = [n \in nodes |-> <<>>]
  /\ triggers = [n \in nodes |-> Started(n).trig]
  /\ verify_sig = [n \in nodes |-> <<>>]
  /\ checking = [n \in nodes |-> {}]
  /\ wal = [n \in nodes |-> Started(n).wal]
  /\ net = {}
  /\ voted = [n \in nodes |-> {}]
  /\ committed = [n \in nodes |-> <<>>]
  /\ checked = [n \in nodes |-> {}]
  /\ last = [node |-> DefaultAddress, op |-> "new", err |-> Ok,
             fx |-> <<>>, trig |-> <<>>, out |-> <<>>, chk |-> {}, views |-> <<>>]
  /\ budget = b
  /\ codec = CodecIdle
  /\ task = [n \in nodes |-> "running"]

\* The validators of height 1 without the node: a quorum by weight.
Quorum == Others

\* The block the environment of the single-node specifications decides on.
TheBlock == CHOOSE h \in BlockHashes : \A g \in BlockHashes : h <= g

\* The proposal of the proposer of (1, 0), the QCs of (1, 0) on that block
\* and on the empty hash, and a prevote QC of the round after.
Proposals1 ==
  {Msg("SignedProposal",
       ProposalOf(Leader(1, INIT_ROUND), 1, INIT_ROUND, TheBlock, None))}

Qcs1 ==
  {Msg("AggregatedVote", QcOf(Quorum, t, 1, INIT_ROUND, hash)) :
     t \in VoteTypes, hash \in {TheBlock, EmptyHash}}
  \cup {Msg("AggregatedVote", QcOf(Quorum, Prevote, 1, INIT_ROUND + 1, TheBlock))}

\* One node at height 1 in an environment that hands it the proposal and the
\* QCs of the height, with timers, failing collaborators and crashes.
InitQc == InitStarted({Self}, [net |-> MaxNet - 1, fault |-> MaxFault, timer |-> MaxTimer])

NextQc ==
  \/ \E m \in Proposals1 \cup Qcs1 : Inject(Self, m)
  \/ Steady(Self)
  \/ Timeout(Self)
  \/ Restart(Self)

SpecQc == InitQc /\ [][NextQc]_vars

\* The prevotes of the other validators of the first heights for the block
\* at round 0 of height MaxHeight, and the status of that height.
Votes2 ==
  {Msg("SignedVote", VoteOf(v, Prevote, MaxHeight, INIT_ROUND, TheBlock)) : v \in Others}

\* One node that is sent votes of a height before and after it gets there.
InitVotes == InitOf({Self}, [net |-> MaxNet + 1, fault |-> MaxFault, timer |-> 0])

NextVotes ==
  \/ \E m \in Votes2 \cup {Msg("RichStatus", StatusOf(MaxHeight))} : Inject(Self, m)
  \/ Steady(Self)
  \/ Restart(Self)

SpecVotes == InitVotes /\ [][NextVotes]_vars

\* The prevotes of the other validators for the block at round 0 of height
\* MaxHeight, a prevote of the round after, and the status of that height.
TallyMsgs ==
  Votes2
    \cup {Msg("SignedVote", VoteOf(1, Prevote, MaxHeight, INIT_ROUND + 1, TheBlock)),
          Msg("RichStatus", StatusOf(MaxHeight))}

\* The leader of round 0 of height MaxHeight collects the prevotes of the
\* round; no QC reaches it from the network and no collaborator call fails.
InitTally == InitOf({Self}, [net |-> MaxNet + 1, fault |-> 0, timer |-> 0])

NextTally ==
  \/ \E m \in TallyMsgs : Inject(Self, m)
  \/ Steady(Self)

SpecTally == InitTally /\ [][NextTally]_vars

\* A block other than the one decided on.
OtherBlock == CHOOSE h \in BlockHashes : h # TheBlock

\* Round 0 of height 1 locks the block without deciding it (proposal, prevote
\* QC, precommit QC on the empty hash); in round 1 the proposer proposes
\* another block, on which a prevote QC forms.
LockMsgs ==
  {Msg("SignedProposal",
       ProposalOf(Leader(1, INIT_ROUND), 1, INIT_ROUND, TheBlock, None)),
   Msg("AggregatedVote", QcOf(Quorum, Prevote, 1, INIT_ROUND, TheBlock)),
   Msg("AggregatedVote", QcOf(Quorum, Precommit, 1, INIT_ROUND, EmptyHash)),
   Msg("SignedProposal",
       ProposalOf(Leader(1, INIT_ROUND + 1), 1, INIT_ROUND + 1, OtherBlock, None)),
   Msg("AggregatedVote", QcOf(Quorum, Prevote, 1, INIT_ROUND + 1, OtherBlock))}

InitLock == InitStarted({Self}, [net |-> MaxNet + 1, fault |-> 0, timer |-> MaxTimer])

NextLock ==
  \/ \E m \in LockMsgs : Inject(Self, m)
  \/ Steady(Self)
  \/ Timeout(Self)

SpecLock == InitLock /\ [][NextLock]_vars

\* The node at height 1 with the proposal and the QCs of (1, 0) arriving, and
\* the application telling it to stop.
StopMsg == Msg("Stop", None)

InitStop == InitStarted({Self}, [net |-> MaxNet, fault |-> 0, timer |-> 0])

NextStop ==
  \/ \E m \in Proposals1 \cup Qcs1 \cup {StopMsg} : Inject(Self, m)
  \/ Steady(Self)

SpecStop == InitStop /\ [][NextStop]_vars

\* Votes and proposals of the node's height, of the next and of one beyond
\* the height gap, for round 0, round 1 and a round beyond the round gap; the
\* proposal of each (height, round) comes from its proposer under the list of
\* height 1. The precommit QCs of (1, 0) end the round or the height.
FilterHeights == {1, 2, 1 + FUTURE_HEIGHT_GAP + 1}
FilterRounds == {0, 1, FUTURE_ROUND_GAP + 1}

FilterMsgs ==
  {Msg("SignedVote", VoteOf(1, Prevote, h, r, TheBlock)) :
     h \in FilterHeights, r \in FilterRounds}
  \cup {Msg("SignedProposal",
            ProposalOf(Unwrap(get_proposer(AuthOf(1), h, r)), h, r, TheBlock, None)) :
          h \in FilterHeights, r \in FilterRounds}
  \cup {Msg("AggregatedVote", QcOf(Quorum, Precommit, 1, INIT_ROUND, hash)) :
          hash \in {TheBlock, EmptyHash}}

InitFilter == InitStarted({Self}, [net |-> MaxNet, fault |-> 0, timer |-> 0])

NextFilter ==
  \/ \E m \in FilterMsgs : Inject(Self, m)
  \/ Steady(Self)

SpecFilter == InitFilter /\ [][NextFilter]_vars

\* The chokes of the other validators for round 0 of height 1, and their
\* chokes for round 1, which carry the choke QC of round 0 they came from.
ChokeQc0 ==
  [height |-> 1, round |-> INIT_ROUND, signature |-> SortSet(Others),
   voters |-> SortSet(Others)]

ChokeMsgs ==
  {Msg("SignedChoke", ChokeOf(a, 1, INIT_ROUND)) : a \in Others}
  \cup {Msg("SignedChoke",
            [ChokeOf(a, 1, INIT_ROUND + 1) EXCEPT
               !.choke.from = [tag |-> "ChokeQC", qc |-> ChokeQc0]]) : a \in Others}

\* One node at height 1 whose timers fire until it brakes, with the chokes of
\* the others arriving and collaborator calls that may fail.
InitChoke ==
  InitStarted({Self}, [net |-> MaxNet, fault |-> MaxFault, timer |-> MaxTimer + 2])

NextChoke ==
  \/ \E m \in ChokeMsgs : Inject(Self, m)
  \/ Steady(Self)
  \/ Timeout(Self)

SpecChoke == InitChoke /\ [][NextChoke]_vars

\* The validators of height MaxHeight without the node: a quorum by weight.
Quorum2 == Others \cap AuthAddresses(AuthOf(MaxHeight).current)

\* Round 0 of height 1, where the node is a replica, and of height MaxHeight,
\* where it is the proposer: the status of the later height, the proposal of
\* (1, 0), the prevote QC on the block and the precommit QC on the empty
\* hash of both rounds, and a prevote QC of round 1 of height 1.
ViewMsgs ==
  {Msg("RichStatus", StatusOf(MaxHeight)),
   Msg("SignedProposal",
       ProposalOf(Leader(1, INIT_ROUND), 1, INIT_ROUND, TheBlock, None)),
   Msg("AggregatedVote", QcOf(Quorum, Prevote, 1, INIT_ROUND, TheBlock)),
   Msg("AggregatedVote", QcOf(Quorum, Precommit, 1, INIT_ROUND, EmptyHash)),
   Msg("AggregatedVote", QcOf(Quorum, Prevote, 1, INIT_ROUND + 1, TheBlock)),
   Msg("AggregatedVote", QcOf(Quorum2, Prevote, MaxHeight, INIT_ROUND, TheBlock)),
   Msg("AggregatedVote", QcOf(Quorum2, Precommit, MaxHeight, INIT_ROUND, EmptyHash))}

InitView == InitStarted({Self}, [net |-> MaxNet, fault |-> 0, timer |-> 0])

NextView ==
  \/ \E m \in ViewMsgs : Inject(Self, m)
  \/ Steady(Self)

SpecView == InitView /\ [][NextView]_vars

\* Validator 3, which leaves the set when height 1 is decided, and the
\* others, a quorum by weight.
Leaving == Self - 1
Staying == Addresses \ {Leaving}

\* The proposal and the QCs of (1, 0) on the block, and the status of the
\* height after.
WalMsgs ==
  {Msg("SignedProposal",
       ProposalOf(Leader(1, INIT_ROUND), 1, INIT_ROUND, TheBlock, None)),
   Msg("AggregatedVote", QcOf(Staying, Prevote, 1, INIT_ROUND, TheBlock)),
   Msg("AggregatedVote", QcOf(Staying, Precommit, 1, INIT_ROUND, TheBlock)),
   Msg("RichStatus", StatusOf(MaxHeight))}

\* The leaving validator at height 1: it locks or decides, a collaborator
\* call may fail, and the process may die and start again from its WAL
\* record, also after it has left the set.
InitWal == InitStarted({Leaving}, [net |-> MaxNet, fault |-> MaxFault + 1, timer |-> 0])

NextWal ==
  \/ \E m \in WalMsgs : Inject(Leaving, m)
  \/ Steady(Leaving)
  \/ Restart(Leaving)

SpecWal == InitWal /\ [][NextWal]_vars

\* The statuses of the heights, the proposal and the QCs of (1, 0) on the
\* block, and the proposal of (MaxHeight, 0).
IdleMsgs ==
  Statuses \cup WalMsgs
    \cup {Msg("SignedProposal",
              ProposalOf(Leader(MaxHeight, INIT_ROUND), MaxHeight, INIT_ROUND, TheBlock, None))}

\* The leaving validator: it loses its consensus power at height MaxHeight,
\* is sent messages and statuses there, and its process may die and start
\* again.
InitIdle == InitStarted({Leaving}, [net |-> MaxNet, fault |-> MaxFault, timer |-> 0])

NextIdle ==
  \/ \E m \in IdleMsgs : Inject(Leaving, m)
  \/ Steady(Leaving)
  \/ Restart(Leaving)

SpecIdle == InitIdle /\ [][NextIdle]_vars

\* The proposal of (1, 0), the precommit QCs on its block of round 0 and of
\* the round after, and the status of the height after.
CommitMsgs ==
  {Msg("SignedProposal",
       ProposalOf(Leader(1, INIT_ROUND), 1, INIT_ROUND, TheBlock, None)),
   Msg("AggregatedVote", QcOf(Quorum, Precommit, 1, INIT_ROUND, TheBlock)),
   Msg("AggregatedVote", QcOf(Quorum, Precommit, 1, INIT_ROUND + 1, TheBlock)),
   Msg("RichStatus", StatusOf(MaxHeight))}

\* One node at height 1 on its way to the decision of the height, with the
\* status of the next height arriving from the application.
InitCommit == InitStarted({Self}, [net |-> MaxNet, fault |-> MaxFault, timer |-> 0])

NextCommit ==
  \/ \E m \in CommitMsgs : Inject(Self, m)
  \/ Steady(Self)

SpecCommit == InitCommit /\ [][NextCommit]_vars

\* The proposal of (1, 0) and the QCs of (1, 0) on its block.
RecoverMsgs ==
  {Msg("SignedProposal",
       ProposalOf(Leader(1, INIT_ROUND), 1, INIT_ROUND, TheBlock, None)),
   Msg("AggregatedVote", QcOf(Quorum, Prevote, 1, INIT_ROUND, TheBlock)),
   Msg("AggregatedVote", QcOf(Quorum, Precommit, 1, INIT_ROUND, TheBlock))}

\* One node at height 1 whose step timer may fire and whose process may die
\* and start again from the record of any step it has saved.
InitRecover ==
  InitStarted({Self}, [net |-> MaxNet - 1, fault |-> MaxFault + 1, timer |-> MaxTimer])

NextRecover ==
  \/ \E m \in RecoverMsgs : Inject(Self, m)
  \/ Steady(Self)
  \/ Timeout(Self)
  \/ Restart(Self)

SpecRecover == InitRecover /\ [][NextRecover]_vars

\* The triggers State and the timers send to SMR while it is at height 1: of
\* its height and of the next, of every round that is played.
StepTriggers == {"Proposal", "PrevoteQC", "PrecommitQC", "BrakeTimeout", "ContinueRound"}

SmrTriggers ==
  {[SMRTrigger(type, hash, None, r, h, None) EXCEPT !.source = source] :
     type \in StepTriggers, hash \in {EmptyHash, TheBlock}, r \in Rounds, h \in Heights,
     source \in {"State", "Timer"}}

\* A trigger reaches the SMR task, whose queue is empty, and is taken.
Fires(n, t) ==
  /\ budget.net > 0
  /\ triggers[n] = <<>>
  /\ smr[n].round <= MaxRound
  /\ LET r == smr_trigger(smr[n], t)
     IN /\ smr' = [smr EXCEPT ![n] = r.s]
        /\ events' = [events EXCEPT ![n] = @ \o r.ev]
        /\ last' = [node |-> n, op |-> "trigger", err |-> Ok, fx |-> <<t>>,
                    trig |-> <<>>, out |-> <<>>, chk |-> {}, views |-> <<>>]
  /\ budget' = [budget EXCEPT !.net = @ - 1]
  /\ UNCHANGED <<state, triggers, verify_sig, checking, wal, net, voted, committed,
                 checked, codec, task>>

\* The SMR task of one node at height 1 and the triggers it is sent.
InitSmr == InitStarted({Self}, [net |-> MaxNet, fault |-> 0, timer |-> 0])

NextSmr ==
  \/ SmrStep(Self)
  \/ \E t \in SmrTriggers : Fires(Self, t)

SpecSmr == InitSmr /\ [][NextSmr]_vars

\* A vote and a QC whose signature does not verify.
ForgedVote(voter, vote_type, h, r, hash) ==
  [VoteOf(voter, vote_type, h, r, hash) EXCEPT !.signature = Outsider]

ForgedQc(S, vote_type, h, r, hash) ==
  [QcOf(S, vote_type, h, r, hash) EXCEPT !.signature.signature = <<Outsider>>]

\* Round 0 of height MaxHeight as it reaches a node that is still a height
\* below: the status, the proposal, prevotes (one of them forged), prevote
\* QCs on the empty hash (one of them forged) and a choke.
FutureMsgs ==
  {Msg("RichStatus", StatusOf(MaxHeight)),
   Msg("SignedProposal",
       ProposalOf(Leader(MaxHeight, INIT_ROUND), MaxHeight, INIT_ROUND, TheBlock, None)),
   Msg("SignedVote", VoteOf(1, Prevote, MaxHeight, INIT_ROUND, EmptyHash)),
   Msg("SignedVote", VoteOf(2, Prevote, MaxHeight, INIT_ROUND, EmptyHash)),
   Msg("SignedVote", ForgedVote(1, Prevote, MaxHeight, INIT_ROUND, EmptyHash)),
   Msg("AggregatedVote", QcOf(Quorum2, Prevote, MaxHeight, INIT_ROUND, EmptyHash)),
   Msg("AggregatedVote", ForgedQc(Quorum2, Prevote, MaxHeight, INIT_ROUND, EmptyHash)),
   Msg("SignedChoke", ChokeOf(1, MaxHeight, INIT_ROUND))}

\* One node at height 1 that is sent the messages of the next height before
\* and after it gets there; a second message may arrive while one waits on
\* the verify_sig channel.
InitFuture == InitStarted({Self}, [net |-> MaxNet, fault |-> 0, timer |-> 0])

NextFuture ==
  \/ \E m \in FutureMsgs : InjectUpTo(Self, m, MaxQueue + 1)
  \/ Steady(Self)

SpecFuture == InitFuture /\ [][NextFuture]_vars

\* Round 0 of height 1 with its block under check, a prevote QC of the round
\* after, the status of the next height and the prevote QC of its round 0 on
\* the same hash.
CheckMsgs ==
  {Msg("SignedProposal",
       ProposalOf(Leader(1, INIT_ROUND), 1, INIT_ROUND, TheBlock, None)),
   Msg("AggregatedVote", QcOf(Quorum, Prevote, 1, INIT_ROUND, TheBlock)),
   Msg("AggregatedVote", QcOf(Quorum, Prevote, 1, INIT_ROUND + 1, TheBlock)),
   Msg("AggregatedVote", QcOf(Quorum, Precommit, 1, INIT_ROUND, TheBlock)),
   Msg("AggregatedVote", QcOf(Quorum, Prevote, 1, INIT_ROUND, EmptyHash)),
   Msg("AggregatedVote", QcOf(Quorum2, Prevote, MaxHeight, INIT_ROUND, TheBlock)),
   Msg("RichStatus", StatusOf(MaxHeight))}

\* One node whose block checks answer before or after the QCs on the block
\* and the status of the next height arrive.
InitCheck == InitStarted({Self}, [net |-> MaxNet, fault |-> 0, timer |-> 0])

NextCheck ==
  \/ \E m \in CheckMsgs : Inject(Self, m)
  \/ Steady(Self)

SpecCheck == InitCheck /\ [][NextCheck]_vars

\* ------------------------------------------------- aggregated votes by height
TriageRounds == {INIT_ROUND, FUTURE_ROUND_GAP, FUTURE_ROUND_GAP + 1}
TriageHeights == {1 + FUTURE_HEIGHT_GAP, 1 + FUTURE_HEIGHT_GAP + 1}

\* QCs of the node's height, of the next height at the edge of the round
\* gap and of heights at the edge of the height gap.
TriageMsgs ==
  {Msg("RichStatus", StatusOf(MaxHeight)),
   Msg("SignedProposal",
       ProposalOf(Leader(1, INIT_ROUND), 1, INIT_ROUND, TheBlock, None))}
  \cup {Msg("AggregatedVote", QcOf(Quorum, Prevote, 1, INIT_ROUND, hash)) :
          hash \in {TheBlock, EmptyHash}}
  \cup {Msg("AggregatedVote", QcOf(Quorum2, Prevote, MaxHeight, r, EmptyHash)) :
          r \in TriageRounds}
  \cup {Msg("AggregatedVote", QcOf(Quorum2, Prevote, h, INIT_ROUND, EmptyHash)) :
          h \in TriageHeights}

InitTriage == InitStarted({Self}, [net |-> MaxNet, fault |-> 0, timer |-> 0])

NextTriage ==
  \/ \E m \in TriageMsgs : InjectUpTo(Self, m, MaxQueue + 1)
  \/ Steady(Self)

SpecTriage == InitTriage /\ [][NextTriage]_vars

\* ------------------------------------------------------ authority by height
\* The authority list of an epoch the node was not part of, which a status
\* that is not above the node's height may carry.
StaleList == {x \in AuthorityList : x.address # Self}

\* One node at height 1 that decides the height or is told the next height
\* by a RichStatus.
InitEpoch == InitStarted({Self}, [net |-> MaxNet, fault |-> 0, timer |-> 0])

NextEpoch ==
  \/ \E m \in CommitMsgs : Inject(Self, m)
  \/ HandleMsg(Self)
  \/ HandleEventOn(Self, {StaleList})
  \/ \E t \in checking[Self] : HandleResp(Self, t)
  \/ \E t \in checking[Self] : CheckFail(Self, t)
  \/ SmrStep(Self)

SpecEpoch == InitEpoch /\ [][NextEpoch]_vars

\* ------------------------------------------------- proposals with a PoLC
\* The proposals of the proposer of (1, 0) for TheBlock: without a lock, and
\* with a PoLC whose QC is signed by a quorum but is of the proposal's own
\* round, a precommit QC, or a QC on another block.
PolcMsgs ==
  {Msg("SignedProposal",
       ProposalOf(Leader(1, INIT_ROUND), 1, INIT_ROUND, TheBlock, polc)) :
     polc \in {None}
       \cup {Some([lock_round |-> INIT_ROUND,
                   lock_votes |-> QcOf(Quorum, t, 1, INIT_ROUND, hash)]) :
               t \in {Prevote, Precommit}, hash \in BlockHashes}}

InitPolc == InitStarted({Self}, [net |-> MaxNet, fault |-> 0, timer |-> 0])

NextPolc ==
  \/ \E m \in PolcMsgs : Inject(Self, m)
  \/ Steady(Self)

SpecPolc == InitPolc /\ [][NextPolc]_vars

\* ------------------------------------------------ a lock carried to round 1
\* The validator that proposes at (1, 1), and the others.
Carrier == Leader(1, INIT_ROUND + 1)
CarrierPeers == Addresses \ {Carrier}

\* The choke QC of round 0 the others built, and the choke that carries it.
CarryChokeQc ==
  [height |-> 1, round |-> INIT_ROUND, signature |-> SortSet(CarrierPeers),
   voters |-> SortSet(CarrierPeers)]

\* What the network holds for the carrier: the proposal of (1, 0) and the
\* prevote QC on its block, no precommit QC of round 0, a choke of round 1
\* with the choke QC of round 0, and the votes of validators 1 and 2 for the
\* block in round 1.
CarryNet ==
  {[to |-> Carrier, kind |-> m.kind, msg |-> m.msg] : m \in
     {Msg("SignedProposal",
          ProposalOf(Leader(1, INIT_ROUND), 1, INIT_ROUND, TheBlock, None)),
      Msg("AggregatedVote", QcOf(CarrierPeers, Prevote, 1, INIT_ROUND, TheBlock)),
      Msg("SignedChoke",
          [ChokeOf(1, 1, INIT_ROUND + 1) EXCEPT
             !.choke.from = [tag |-> "ChokeQC", qc |-> CarryChokeQc]])}
     \cup {Msg("SignedVote", VoteOf(a, t, 1, INIT_ROUND + 1, TheBlock)) :
             a \in {1, 2}, t \in {Prevote, Precommit}}}

\* The carrier at height 1 with these messages on their way to it, each
\* delivered once, in any order.
InitCarry ==
  /\ state = [n \in {Carrier} |-> StateOf(Started(n))]
  /\ smr = [n \in {Carrier} |-> SmrInit]
  /\ events = [n \in {Carrier} |-> <<>>]
  /\ triggers = [n \in {Carrier} |-> Started(n).trig]
  /\ verify_sig = [n \in {Carrier} |-> <<>>]
  /\ checking = [n \in {Carrier} |-> {}]
  /\ wal = [n \in {Carrier} |-> Started(n).wal]
  /\ net = CarryNet
  /\ voted = [n \in {Carrier} |-> {}]
  /\ committed = [n \in {Carrier} |-> <<>>]
  /\ checked = [n \in {Carrier} |-> {}]
  /\ last = [node |-> DefaultAddress, op |-> "new", err |-> Ok,
             fx |-> <<>>, trig |-> <<>>, out |-> <<>>, chk |-> {}, views |-> <<>>]
  /\ budget = [net |-> 0, fault |-> 0, timer |-> 0]
  /\ codec = CodecIdle
  /\ task = [n \in {Carrier} |-> "running"]

\* A message arrives while fewer than MaxQueue messages wait on verify_sig.
Arrives == \E m \in net : Len(verify_sig[m.to]) < MaxQueue /\ Deliver(m)

NextCarry ==
  \/ Arrives
  \/ Steady(Carrier)

SpecCarry == InitCarry /\ [][NextCarry]_vars

\* Node n has nothing left to do.
Idle(n) ==
  /\ verify_sig[n] = <<>>
  /\ events[n] = <<>>
  /\ triggers[n] = <<>>
  /\ checking[n] = {}

\* The same node and messages with a network that hands over the next
\* message when the node is done with the last and an application whose
\* check_block passes every block.
NextCarryInTurn ==
  \/ \E m \in net : Idle(m.to) /\ Deliver(m)
  \/ HandleMsg(Carrier)
  \/ HandleEvent(Carrier)
  \/ \E t \in checking[Carrier] : HandleResp(Carrier, t)
  \/ SmrStep(Carrier)

SpecCarryInTurn == InitCarry /\ [][NextCarryInTurn]_vars

\* As long as a step is possible, a step is taken.
SpecCarryLive == SpecCarryInTurn /\ WF_vars(NextCarryInTurn)

\* Every message has been delivered and node n has nothing left to do: the
\* state a behaviour of SpecCarryLive ends in.
Done(n) == net = {} /\ Idle(n)

\* =========================================================== the wire codec
\* A wire image is a sequence of bytes. Every decoder takes the buffer it
\* reads from and answers Ok with the value and the rest of the buffer, an
\* Err, or a panic of the decoding thread.
DecOk(v, rest) == [tag |-> "Ok", val |-> v, rest |-> rest]
DecErr == [tag |-> "Err"]
DecPanic == [tag |-> "Panic"]

\* `?` on a decoded value: a failure is the result, a value goes on to F.
Then(r, F(_)) == IF r.tag = "Ok" THEN DecOk(F(r.val), r.rest) ELSE r

RECURSIVE Concat(_)
Concat(parts) == IF parts = <<>> THEN <<>> ELSE Head(parts) \o Concat(Tail(parts))

\* The big-endian bytes of x without leading zeros; none for 0.
RECURSIVE to_be_bytes(_)
to_be_bytes(x) == IF x = 0 THEN <<>> ELSE Append(to_be_bytes(x \div 256), x % 256)

RECURSIVE from_be_bytes(_)
from_be_bytes(b) ==
  IF b = <<>> THEN 0
  ELSE from_be_bytes(SubSeq(b, 1, Len(b) - 1)) * 256 + b[Len(b)]

\* alloy_rlp::Header::encode: the length prefix of a string or a list.
encode_header(list, payload_length) ==
  IF payload_length < 56
  THEN <<(IF list THEN 192 ELSE 128) + payload_length>>
  ELSE <<(IF list THEN 247 ELSE 183) + Len(to_be_bytes(payload_length))>>
       \o to_be_bytes(payload_length)

\* The item whose payload is the `length` bytes from position `start`.
header_payload(buf, list, start, length) ==
  IF Len(buf) < start - 1 + length THEN DecErr
  ELSE IF ~list /\ start = 2 /\ length = 1 /\ buf[2] < 128 THEN DecErr
  ELSE DecOk([list |-> list, payload |-> SubSeq(buf, start, start - 1 + length)],
             SubSeq(buf, start + length, Len(buf)))

\* The long form: the length of the length, then the length, then the payload.
header_long(buf, list, len_of_len) ==
  IF Len(buf) < 1 + len_of_len THEN DecErr
  ELSE IF buf[2] = 0 THEN DecErr
  ELSE IF from_be_bytes(SubSeq(buf, 2, 1 + len_of_len)) < 56 THEN DecErr
  ELSE header_payload(buf, list, 2 + len_of_len,
                      from_be_bytes(SubSeq(buf, 2, 1 + len_of_len)))

\* alloy_rlp::Header::decode: Ok([list, payload]) and the rest of the buffer.
decode_header(buf) ==
  IF buf = <<>> THEN DecErr
  ELSE IF buf[1] < 128 THEN DecOk([list |-> FALSE, payload |-> <<buf[1]>>], Tail(buf))
  ELSE IF buf[1] < 184 THEN header_payload(buf, FALSE, 2, buf[1] - 128)
  ELSE IF buf[1] < 192 THEN header_long(buf, FALSE, buf[1] - 183)
  ELSE IF buf[1] < 248 THEN header_payload(buf, TRUE, 2, buf[1] - 192)
  ELSE header_long(buf, TRUE, buf[1] - 247)

bytes_of(h, is_list) ==
  IF h.tag # "Ok" THEN h
  ELSE IF h.val.list # is_list THEN DecErr
  ELSE DecOk(h.val.payload, h.rest)

\* Header::decode_bytes(buf, is_list): the payload of the next item, which
\* must be a list exactly when is_list.
decode_bytes(buf, is_list) == bytes_of(decode_header(buf), is_list)

payload_of(buf) == decode_bytes(buf, TRUE)

\* encode_list: the header of the concatenated fields, then the fields.
list_of(payload) == encode_header(TRUE, Len(payload)) \o payload

encode_list(fields) == list_of(Concat(fields))

\* Bytes (Hash, Address, Signature): a string; one byte below 0x80 is itself.
encode_Bytes(b) ==
  IF Len(b) = 1 /\ b[1] < 128 THEN b ELSE encode_header(FALSE, Len(b)) \o b

decode_Bytes(buf) == decode_bytes(buf, FALSE)

\* Unsigned integers: the string of the big-endian bytes without leading zeros.
encode_uint(x) == encode_Bytes(to_be_bytes(x))

uint_of(h, size) ==
  IF h.tag # "Ok" THEN h
  ELSE IF h.val # <<>> /\ h.val[1] = 0 THEN DecErr
  ELSE IF Len(h.val) > size THEN DecErr
  ELSE DecOk(from_be_bytes(h.val), h.rest)

decode_uint(buf, size) == uint_of(decode_bytes(buf, FALSE), size)

decode_u64(buf) == decode_uint(buf, 8)
decode_u32(buf) == decode_uint(buf, 4)
decode_u8(buf) == decode_uint(buf, 1)

encode_bool(b) == encode_uint(IF b THEN 1 ELSE 0)

bool_of(r) ==
  IF r.tag # "Ok" THEN r
  ELSE IF r.val = 0 THEN DecOk(FALSE, r.rest)
  ELSE IF r.val = 1 THEN DecOk(TRUE, r.rest)
  ELSE DecErr

decode_bool(buf) == bool_of(decode_u8(buf))

\* ---- the fields of a list, read in order
\* The fields read so far, by name, and what is left of the payload.
NoFields == [x \in {} |-> x]

\* The payload of a list, opened for reading its fields.
Open(p) == IF p.tag = "Ok" THEN DecOk(NoFields, p.val) ELSE p

got(r, name, d) ==
  IF d.tag # "Ok" THEN d ELSE DecOk(r.val @@ (name :> d.val), d.rest)

\* `name: D::decode(&mut payload)?`
Field(r, name, D(_)) == IF r.tag # "Ok" THEN r ELSE got(r, name, D(r.rest))

\* The list is done: the value is the fields read, the buffer goes on after
\* the list; what is left of the payload is dropped.
Close(p, r) == IF r.tag # "Ok" THEN r ELSE DecOk(r.val, p.rest)

\* The items of a Vec<T>, read until the payload is used up.
items_of(p, r) == IF p.tag # "Ok" THEN p ELSE IF r.tag # "Ok" THEN r ELSE DecOk(r.val, p.rest)

\* Vec<u8>: a list with one item per byte.
encode_Vec_u8(v) == encode_list([i \in 1 .. Len(v) |-> encode_uint(v[i])])

RECURSIVE decode_u8_items(_, _)
u8_item(r, acc) == IF r.tag # "Ok" THEN r ELSE decode_u8_items(r.rest, Append(acc, r.val))

decode_u8_items(payload, acc) ==
  IF payload = <<>> THEN DecOk(acc, <<>>) ELSE u8_item(decode_u8(payload), acc)

u8_items(p) == IF p.tag # "Ok" THEN p ELSE items_of(p, decode_u8_items(p.val, <<>>))

decode_Vec_u8(buf) == u8_items(payload_of(buf))

\* The block content T is an unsigned 64-bit number: bcs writes it as eight
\* little-endian bytes and reads back exactly eight.
RECURSIVE to_le_bytes(_, _)
to_le_bytes(x, n) == IF n = 0 THEN <<>> ELSE <<x % 256>> \o to_le_bytes(x \div 256, n - 1)

RECURSIVE from_le_bytes(_)
from_le_bytes(b) == IF b = <<>> THEN 0 ELSE b[1] + 256 * from_le_bytes(Tail(b))

bcs_to_bytes(content) == to_le_bytes(content, 8)

bcs_from_bytes(b) == IF Len(b) = 8 THEN Some(from_le_bytes(b)) ELSE None

encode_content(content) == encode_Vec_u8(bcs_to_bytes(content))

content_of(r) ==
  IF r.tag # "Ok" THEN r
  ELSE IF bcs_from_bytes(r.val) = None THEN DecErr
  ELSE DecOk(Unwrap(bcs_from_bytes(r.val)), r.rest)

decode_content(buf) == content_of(decode_Vec_u8(buf))

\* impl From<VoteType> for u8 / impl TryFrom<u8> for VoteType
VoteTypeToU8(v) == IF v = Prevote THEN 1 ELSE 2

VoteTypeFromU8(s) == IF s = 1 THEN Some(Prevote) ELSE IF s = 2 THEN Some(Precommit) ELSE None

\* impl From<u8> for Step: None stands for the panic on an unknown byte.
StepFromU8(s) == IF s \in 0 .. 4 THEN Some(Steps[s + 1]) ELSE None

\* `.unwrap()` of a conversion, and a conversion that panics by itself.
unwrapped(r, conv(_)) ==
  IF r.tag # "Ok" THEN r
  ELSE IF conv(r.val.value) = None THEN DecPanic
  ELSE DecOk(Unwrap(conv(r.val.value)), r.rest)

byte_list(p) == Close(p, Field(Open(p), "value", decode_u8))

\* impl Encodable / Decodable for VoteType: a list of the one byte; the
\* decoder unwraps the conversion.
encode_VoteType(v) == encode_list(<<encode_uint(VoteTypeToU8(v))>>)

decode_VoteType(buf) == unwrapped(byte_list(payload_of(buf)), VoteTypeFromU8)

\* impl Encodable / Decodable for Step
encode_Step(step) == encode_list(<<encode_uint(StepToU8(step))>>)

decode_Step(buf) == unwrapped(byte_list(payload_of(buf)), StepFromU8)

\* AggregatedSignature: [signature, address_bitmap]
encode_AggregatedSignature(v) ==
  encode_list(<<encode_Bytes(v.signature), encode_Bytes(v.address_bitmap)>>)

AggregatedSignature_fields(p) ==
  Close(p, Field(Field(Open(p),
    "signature", decode_Bytes),
    "address_bitmap", decode_Bytes))

decode_AggregatedSignature(buf) == AggregatedSignature_fields(payload_of(buf))

\* AggregatedVote: [signature, vote_type, height, round, block_hash, leader]
encode_AggregatedVote(v) ==
  encode_list(<<encode_AggregatedSignature(v.signature), encode_VoteType(v.vote_type),
                encode_uint(v.height), encode_uint(v.round),
                encode_Bytes(v.block_hash), encode_Bytes(v.leader)>>)

AggregatedVote_fields(p) ==
  Close(p, Field(Field(Field(Field(Field(Field(Open(p),
    "signature", decode_AggregatedSignature),
    "vote_type", decode_VoteType),
    "height", decode_u64),
    "round", decode_u64),
    "block_hash", decode_Bytes),
    "leader", decode_Bytes))

decode_AggregatedVote(buf) == AggregatedVote_fields(payload_of(buf))

\* PoLC: [lock_round, lock_votes]
encode_PoLC(v) ==
  encode_list(<<encode_uint(v.lock_round), encode_AggregatedVote(v.lock_votes)>>)

PoLC_fields(p) ==
  Close(p, Field(Field(Open(p),
    "lock_round", decode_u64),
    "lock_votes", decode_AggregatedVote))

decode_PoLC(buf) == PoLC_fields(payload_of(buf))

\* impl Encodable for Proposal<T>: the flag, then the fields, the lock
\* between block_hash and proposer when there is one.
encode_Proposal(v) ==
  IF v.lock # None
  THEN encode_list(<<encode_bool(TRUE), encode_uint(v.height), encode_uint(v.round),
                     encode_content(v.content), encode_Bytes(v.block_hash),
                     encode_PoLC(Unwrap(v.lock)), encode_Bytes(v.proposer)>>)
  ELSE encode_list(<<encode_bool(FALSE), encode_uint(v.height), encode_uint(v.round),
                     encode_content(v.content), encode_Bytes(v.block_hash),
                     encode_Bytes(v.proposer)>>)

\* The fields of a Proposal<T> read as if the flag were always false.
Proposal_after_flag_unlocked(r) ==
  IF r.tag # "Ok" THEN r
  ELSE Field(Field(Field(Field(Field(r,
         "height", decode_u64),
         "round", decode_u64),
         "content", decode_content),
         "block_hash", decode_Bytes),
         "proposer", decode_Bytes)

\* impl Decodable for Proposal<T>, after `has_locked = bool::decode(..)?`: the
\* branch with the lock and the branch without.
Proposal_after_flag(r) ==
  IF r.tag # "Ok" THEN r
  ELSE IF r.val.has_locked
  THEN Field(Field(Field(Field(Field(Field(r,
         "height", decode_u64),
         "round", decode_u64),
         "content", decode_content),
         "block_hash", decode_Bytes),
         "lock", decode_PoLC),
         "proposer", decode_Bytes)
  ELSE Field(Field(Field(Field(Field(r,
         "height", decode_u64),
         "round", decode_u64),
         "content", decode_content),
         "block_hash", decode_Bytes),
         "proposer", decode_Bytes)

Proposal_value(v) ==
  [height |-> v.height, round |-> v.round, content |-> v.content,
   block_hash |-> v.block_hash,
   lock |-> IF v.has_locked THEN Some(v.lock) ELSE None,
   proposer |-> v.proposer]

Proposal_fields(p) ==
  Then(Close(p, Proposal_after_flag(Field(Open(p), "has_locked", decode_bool))),
       Proposal_value)

\* impl Decodable for Proposal<T>
decode_Proposal(buf) == Proposal_fields(payload_of(buf))

\* impl Encodable / Decodable for SignedProposal<T>
encode_SignedProposal(v) ==
  encode_list(<<encode_Bytes(v.signature), encode_Proposal(v.proposal)>>)

SignedProposal_fields(p) ==
  Close(p, Field(Field(Open(p),
    "signature", decode_Bytes),
    "proposal", decode_Proposal))

decode_SignedProposal(buf) == SignedProposal_fields(payload_of(buf))

\* Vote: [height, round, vote_type, block_hash]
encode_Vote(v) ==
  encode_list(<<encode_uint(v.height), encode_uint(v.round),
                encode_VoteType(v.vote_type), encode_Bytes(v.block_hash)>>)

Vote_fields(p) ==
  Close(p, Field(Field(Field(Field(Open(p),
    "height", decode_u64),
    "round", decode_u64),
    "vote_type", decode_VoteType),
    "block_hash", decode_Bytes))

decode_Vote(buf) == Vote_fields(payload_of(buf))

\* SignedVote: [signature, vote, voter]
encode_SignedVote(v) ==
  encode_list(<<encode_Bytes(v.signature), encode_Vote(v.vote), encode_Bytes(v.voter)>>)

SignedVote_fields(p) ==
  Close(p, Field(Field(Field(Open(p),
    "signature", decode_Bytes),
    "vote", decode_Vote),
    "voter", decode_Bytes))

decode_SignedVote(buf) == SignedVote_fields(payload_of(buf))

\* Proof: [height, round, block_hash, signature]
encode_Proof(v) ==
  encode_list(<<encode_uint(v.height), encode_uint(v.round), encode_Bytes(v.block_hash),
                encode_AggregatedSignature(v.signature)>>)

Proof_fields(p) ==
  Close(p, Field(Field(Field(Field(Open(p),
    "height", decode_u64),
    "round", decode_u64),
    "block_hash", decode_Bytes),
    "signature", decode_AggregatedSignature))

decode_Proof(buf) == Proof_fields(payload_of(buf))

\* impl Encodable / Decodable for Commit<T>
encode_Commit(v) ==
  encode_list(<<encode_uint(v.height), encode_content(v.content), encode_Proof(v.proof)>>)

Commit_fields(p) ==
  Close(p, Field(Field(Field(Open(p),
    "height", decode_u64),
    "content", decode_content),
    "proof", decode_Proof))

decode_Commit(buf) == Commit_fields(payload_of(buf))

\* Vec<Address>: a list of strings.
encode_Vec_Address(v) == encode_list([i \in 1 .. Len(v) |-> encode_Bytes(v[i])])

RECURSIVE decode_Address_items(_, _)
Address_item(r, acc) ==
  IF r.tag # "Ok" THEN r ELSE decode_Address_items(r.rest, Append(acc, r.val))

decode_Address_items(payload, acc) ==
  IF payload = <<>> THEN DecOk(acc, <<>>) ELSE Address_item(decode_Bytes(payload), acc)

Address_items(p) ==
  IF p.tag # "Ok" THEN p ELSE items_of(p, decode_Address_items(p.val, <<>>))

decode_Vec_Address(buf) == Address_items(payload_of(buf))

\* AggregatedChoke: [height, round, signature, voters]
encode_AggregatedChoke(v) ==
  encode_list(<<encode_uint(v.height), encode_uint(v.round), encode_Bytes(v.signature),
                encode_Vec_Address(v.voters)>>)

AggregatedChoke_fields(p) ==
  Close(p, Field(Field(Field(Field(Open(p),
    "height", decode_u64),
    "round", decode_u64),
    "signature", decode_Bytes),
    "voters", decode_Vec_Address))

decode_AggregatedChoke(buf) == AggregatedChoke_fields(payload_of(buf))

\* impl Encodable for UpdateFrom: the tag of the variant, then its QC.
encode_UpdateFrom(v) ==
  IF v.tag = "PrevoteQC"
  THEN encode_list(<<encode_uint(0), encode_AggregatedVote(v.qc)>>)
  ELSE IF v.tag = "PrecommitQC"
  THEN encode_list(<<encode_uint(1), encode_AggregatedVote(v.qc)>>)
  ELSE encode_list(<<encode_uint(2), encode_AggregatedChoke(v.qc)>>)

\* impl Decodable for UpdateFrom, after `value = u8::decode(..)?`: the match.
UpdateFrom_after_tag(r) ==
  IF r.tag # "Ok" THEN r
  ELSE IF r.val.value \in {0, 1} THEN Field(r, "qc", decode_AggregatedVote)
  ELSE IF r.val.value = 2 THEN Field(r, "qc", decode_AggregatedChoke)
  ELSE DecErr

UpdateFrom_value(v) ==
  [tag |-> IF v.value = 0 THEN "PrevoteQC"
           ELSE IF v.value = 1 THEN "PrecommitQC" ELSE "ChokeQC",
   qc |-> v.qc]

UpdateFrom_fields(p) ==
  Then(Close(p, UpdateFrom_after_tag(Field(Open(p), "value", decode_u8))),
       UpdateFrom_value)

decode_UpdateFrom(buf) == UpdateFrom_fields(payload_of(buf))

\* Choke: [height, round, from]
encode_Choke(v) ==
  encode_list(<<encode_uint(v.height), encode_uint(v.round), encode_UpdateFrom(v.from)>>)

Choke_fields(p) ==
  Close(p, Field(Field(Field(Open(p),
    "height", decode_u64),
    "round", decode_u64),
    "from", decode_UpdateFrom))

decode_Choke(buf) == Choke_fields(payload_of(buf))

\* SignedChoke: [signature, choke, address]
encode_SignedChoke(v) ==
  encode_list(<<encode_Bytes(v.signature), encode_Choke(v.choke), encode_Bytes(v.address)>>)

SignedChoke_fields(p) ==
  Close(p, Field(Field(Field(Open(p),
    "signature", decode_Bytes),
    "choke", decode_Choke),
    "address", decode_Bytes))

decode_SignedChoke(buf) == SignedChoke_fields(payload_of(buf))

\* Node: [address, propose_weight, vote_weight]
encode_Node(v) ==
  encode_list(<<encode_Bytes(v.address), encode_uint(v.propose_weight),
                encode_uint(v.vote_weight)>>)

Node_fields(p) ==
  Close(p, Field(Field(Field(Open(p),
    "address", decode_Bytes),
    "propose_weight", decode_u32),
    "vote_weight", decode_u32))

decode_Node(buf) == Node_fields(payload_of(buf))

\* Vec<Node>: a list of Nodes.
encode_Vec_Node(v) == encode_list([i \in 1 .. Len(v) |-> encode_Node(v[i])])

RECURSIVE decode_Node_items(_, _)
Node_item(r, acc) ==
  IF r.tag # "Ok" THEN r ELSE decode_Node_items(r.rest, Append(acc, r.val))

decode_Node_items(payload, acc) ==
  IF payload = <<>> THEN DecOk(acc, <<>>) ELSE Node_item(decode_Node(payload), acc)

Node_items(p) ==
  IF p.tag # "Ok" THEN p ELSE items_of(p, decode_Node_items(p.val, <<>>))

decode_Vec_Node(buf) == Node_items(payload_of(buf))

\* DurationConfig: [propose_ratio, prevote_ratio, precommit_ratio, brake_ratio]
encode_DurationConfig(v) ==
  encode_list(<<encode_uint(v.propose_ratio), encode_uint(v.prevote_ratio),
                encode_uint(v.precommit_ratio), encode_uint(v.brake_ratio)>>)

DurationConfig_fields(p) ==
  Close(p, Field(Field(Field(Field(Open(p),
    "propose_ratio", decode_u64),
    "prevote_ratio", decode_u64),
    "precommit_ratio", decode_u64),
    "brake_ratio", decode_u64))

decode_DurationConfig(buf) == DurationConfig_fields(payload_of(buf))

\* An optional field: a list of the value when there is one, the empty list
\* when there is none.
encode_Option(o, image) == encode_list(IF o = None THEN <<>> ELSE <<image>>)

some_of(p, d) == IF d.tag # "Ok" THEN d ELSE DecOk(Some(d.val), p.rest)

option_of(p, D(_)) ==
  IF p.tag # "Ok" THEN p
  ELSE IF p.val = <<>> THEN DecOk(None, p.rest)
  ELSE some_of(p, D(p.val))

decode_Option_u64(buf) == option_of(payload_of(buf), decode_u64)

decode_Option_DurationConfig(buf) == option_of(payload_of(buf), decode_DurationConfig)

\* Status: [height, interval, timer_config, authority_list]
encode_Status(v) ==
  encode_list(<<encode_uint(v.height),
                encode_Option(v.interval,
                              IF v.interval = None THEN <<>>
                              ELSE encode_uint(Unwrap(v.interval))),
                encode_Option(v.timer_config,
                              IF v.timer_config = None THEN <<>>
                              ELSE encode_DurationConfig(Unwrap(v.timer_config))),
                encode_Vec_Node(v.authority_list)>>)

Status_fields(p) ==
  Close(p, Field(Field(Field(Field(Open(p),
    "height", decode_u64),
    "interval", decode_Option_u64),
    "timer_config", decode_Option_DurationConfig),
    "authority_list", decode_Vec_Node))

decode_Status(buf) == Status_fields(payload_of(buf))

\* impl Encodable / Decodable for WalLock<T>
encode_WalLock(v) ==
  encode_list(<<encode_uint(v.lock_round), encode_AggregatedVote(v.lock_votes),
                encode_content(v.content)>>)

WalLock_fields(p) ==
  Close(p, Field(Field(Field(Open(p),
    "lock_round", decode_u64),
    "lock_votes", decode_AggregatedVote),
    "content", decode_content))

decode_WalLock(buf) == WalLock_fields(payload_of(buf))

\* impl Encodable for WalInfo<T>: the flag, then the fields, the lock between
\* step and from when there is one.
encode_WalInfo(v) ==
  IF v.lock # None
  THEN encode_list(<<encode_bool(TRUE), encode_uint(v.height), encode_uint(v.round),
                     encode_Step(v.step), encode_WalLock(Unwrap(v.lock)),
                     encode_UpdateFrom(v.from)>>)
  ELSE encode_list(<<encode_bool(FALSE), encode_uint(v.height), encode_uint(v.round),
                     encode_Step(v.step), encode_UpdateFrom(v.from)>>)

\* impl Decodable for WalInfo<T>, after `has_locked = bool::decode(..)?`
WalInfo_after_flag(r) ==
  IF r.tag # "Ok" THEN r
  ELSE IF r.val.has_locked
  THEN Field(Field(Field(Field(Field(r,
         "height", decode_u64),
         "round", decode_u64),
         "step", decode_Step),
         "lock", decode_WalLock),
         "from", decode_UpdateFrom)
  ELSE Field(Field(Field(Field(r,
         "height", decode_u64),
         "round", decode_u64),
         "step", decode_Step),
         "from", decode_UpdateFrom)

WalInfo_value(v) ==
  [height |-> v.height, round |-> v.round, step |-> v.step,
   lock |-> IF v.has_locked THEN Some(v.lock) ELSE None,
   from |-> v.from]

WalInfo_fields(p) ==
  Then(Close(p, WalInfo_after_flag(Field(Open(p), "has_locked", decode_bool))),
       WalInfo_value)

\* impl Decodable for WalInfo<T>
decode_WalInfo(buf) == WalInfo_fields(payload_of(buf))

\* alloy_rlp::encode(v) / Decodable::decode(buf) at each type the codec has.
encode(type, v) ==
  CASE type = "SignedProposal" -> encode_SignedProposal(v)
    [] type = "Proposal" -> encode_Proposal(v)
    [] type = "SignedVote" -> encode_SignedVote(v)
    [] type = "AggregatedVote" -> encode_AggregatedVote(v)
    [] type = "Commit" -> encode_Commit(v)
    [] type = "Status" -> encode_Status(v)
    [] type = "AggregatedChoke" -> encode_AggregatedChoke(v)
    [] type = "SignedChoke" -> encode_SignedChoke(v)
    [] type = "WalInfo" -> encode_WalInfo(v)
    [] type = "UpdateFrom" -> encode_UpdateFrom(v)
    [] type = "Step" -> encode_Step(v)
    [] type = "VoteType" -> encode_VoteType(v)

decode(type, buf) ==
  CASE type = "SignedProposal" -> decode_SignedProposal(buf)
    [] type = "Proposal" -> decode_Proposal(buf)
    [] type = "SignedVote" -> decode_SignedVote(buf)
    [] type = "AggregatedVote" -> decode_AggregatedVote(buf)
    [] type = "Commit" -> decode_Commit(buf)
    [] type = "Status" -> decode_Status(buf)
    [] type = "AggregatedChoke" -> decode_AggregatedChoke(buf)
    [] type = "SignedChoke" -> decode_SignedChoke(buf)
    [] type = "WalInfo" -> decode_WalInfo(buf)
    [] type = "UpdateFrom" -> decode_UpdateFrom(buf)
    [] type = "Step" -> decode_Step(buf)
    [] type = "VoteType" -> decode_VoteType(buf)

\* ------------------------------------------------- the values put on the wire
\* Numbers on both sides of every length the integer encoding tells apart.
WireNumbers == {0, 1, 127, 128, 255, 256, 65536}

\* A string long enough for the long form of the length prefix.
LongBytes == [i \in 1 .. 56 |-> i]

\* Strings: empty, one byte below and from 0x80, two bytes, a long one.
WireBytes == {<<>>, <<0>>, <<127>>, <<128>>, <<1, 2>>, LongBytes}

WireContents == {0, 300}

WireAggregatedSignatures ==
  {[signature |-> s, address_bitmap |-> b] : s \in {<<>>, LongBytes}, b \in {<<0>>, <<128>>}}

WireAggregatedVotes ==
  {[signature |-> g, vote_type |-> t, height |-> h, round |-> 1, block_hash |-> b,
    leader |-> <<1, 2>>] :
     g \in WireAggregatedSignatures, t \in VoteTypes, h \in {0, 256},
     b \in {<<>>, <<127>>}}

\* The QCs put inside other values.
InnerQcs ==
  {q \in WireAggregatedVotes :
     q.height = 256 /\ q.block_hash = <<127>> /\ q.signature.address_bitmap = <<128>>}

WirePoLCs == {[lock_round |-> r, lock_votes |-> q] : r \in {0, 128}, q \in InnerQcs}

WireProposals ==
  {[height |-> h, round |-> r, content |-> c, block_hash |-> b, lock |-> l,
    proposer |-> <<128>>] :
     h \in {0, 1, 128}, r \in {0, 255}, c \in WireContents, b \in {<<>>, LongBytes},
     l \in {None} \cup {Some(x) : x \in WirePoLCs}}

WireSignedProposals ==
  {[signature |-> s, proposal |-> p] :
     s \in {<<>>, LongBytes}, p \in {x \in WireProposals : x.height = 128}}

WireVotes ==
  {[height |-> h, round |-> r, vote_type |-> t, block_hash |-> b] :
     h \in WireNumbers, r \in {0, 128}, t \in VoteTypes, b \in {<<>>, <<0>>, LongBytes}}

WireSignedVotes ==
  {[signature |-> s, vote |-> v, voter |-> a] :
     s \in {<<>>, <<127>>, LongBytes}, v \in {x \in WireVotes : x.height \in {0, 256}},
     a \in {<<128>>, <<1, 2>>}}

WireProofs ==
  {[height |-> h, round |-> 0, block_hash |-> b, signature |-> g] :
     h \in {1, 65536}, b \in {<<127>>, LongBytes}, g \in WireAggregatedSignatures}

WireCommits ==
  {[height |-> h, content |-> c, proof |-> p] :
     h \in {0, 128}, c \in WireContents, p \in WireProofs}

WireAggregatedChokes ==
  {[height |-> h, round |-> r, signature |-> s, voters |-> v] :
     h \in {0, 256}, r \in {0, 127}, s \in {<<>>, LongBytes},
     v \in {<<>>, <<<<128>>>>, <<<<1, 2>>, <<>>, LongBytes>>}}

WireUpdateFroms ==
  {[tag |-> VoteTypeToTrigger(q.vote_type), qc |-> q] : q \in InnerQcs}
  \cup {[tag |-> "ChokeQC", qc |-> q] : q \in {x \in WireAggregatedChokes : x.height = 256}}

WireSignedChokes ==
  {[signature |-> s, choke |-> [height |-> h, round |-> 1, from |-> f], address |-> <<0>>] :
     s \in {<<>>, LongBytes}, h \in {0, 128}, f \in WireUpdateFroms}

WireNodes ==
  {[address |-> a, propose_weight |-> 1, vote_weight |-> w] :
     a \in {<<1, 2>>, LongBytes}, w \in {0, 1, 256}}

WireStatuses ==
  {[height |-> h, interval |-> i, timer_config |-> t, authority_list |-> l] :
     h \in {0, 128}, i \in {None, Some(0), Some(3000)},
     t \in {None, Some([propose_ratio |-> 0, prevote_ratio |-> 1, precommit_ratio |-> 128,
                        brake_ratio |-> 65536])},
     l \in {<<>>} \cup {<<x>> : x \in WireNodes}
            \cup {<<x, y>> : x \in WireNodes, y \in {z \in WireNodes : z.vote_weight = 0}}}

WireWalLocks ==
  {[lock_round |-> r, lock_votes |-> q, content |-> 300] : r \in {0, 1}, q \in InnerQcs}

WireWalInfos ==
  {[height |-> h, round |-> r, step |-> Steps[s], lock |-> l, from |-> f] :
     h \in {1, 256}, r \in {0, 128}, s \in DOMAIN Steps,
     l \in {None} \cup {Some(x) : x \in WireWalLocks},
     f \in {x \in WireUpdateFroms : x.qc.signature # <<>>}}

WireTypes ==
  {"SignedProposal", "Proposal", "SignedVote", "AggregatedVote", "Commit", "Status",
   "AggregatedChoke", "SignedChoke", "WalInfo"}

WireValues(type) ==
  CASE type = "SignedProposal" -> WireSignedProposals
    [] type = "Proposal" -> WireProposals
    [] type = "SignedVote" -> WireSignedVotes
    [] type = "AggregatedVote" -> WireAggregatedVotes
    [] type = "Commit" -> WireCommits
    [] type = "Status" -> WireStatuses
    [] type = "AggregatedChoke" -> WireAggregatedChokes
    [] type = "SignedChoke" -> WireSignedChokes
    [] type = "WalInfo" -> WireWalInfos

\* ------------------------------------------------------ the codec at work
sys == <<state, smr, events, triggers, verify_sig, checking, wal, net, voted,
         committed, checked, last, budget, task>>

\* A value of one of the types is handed to the codec.
Choose(type, v) ==
  /\ codec.phase = "idle"
  /\ codec' = [phase |-> "value", type |-> type, value |-> v]
  /\ UNCHANGED sys

Encode ==
  /\ codec.phase = "value"
  /\ codec' = [phase |-> "encoded", type |-> codec.type, value |-> codec.value,
               wire |-> encode(codec.type, codec.value)]
  /\ UNCHANGED sys

\* An image read as a value of the type: "decoded" for an image the encoder
\* wrote, "read" for bytes that came from elsewhere.
Decode ==
  /\ codec.phase \in {"encoded", "received"}
  /\ codec' = [phase |-> IF codec.phase = "encoded" THEN "decoded" ELSE "read",
               type |-> codec.type, value |-> codec.value,
               wire |-> codec.wire, result |-> decode(codec.type, codec.wire)]
  /\ UNCHANGED sys

InitCodec == InitOf({}, [net |-> 0, fault |-> 0, timer |-> 0])

NextCodec ==
  \/ \E type \in WireTypes : \E v \in WireValues(type) : Choose(type, v)
  \/ Encode
  \/ Decode

SpecCodec == InitCodec /\ [][NextCodec]_vars

\* ---- bytes from elsewhere
\* The longest input and the bytes it is made of: the list prefixes of one and
\* two bytes of payload, the string prefix of one byte, and the small numbers
\* on both sides of the tags the enums have.
MaxInput == 3
InputBytes == {0, 1, 2, 3, 4, 5, 128, 129, 193, 194}

Inputs == UNION {[1 .. n -> InputBytes] : n \in 0 .. MaxInput}

EnumTypes == {"Step", "VoteType", "UpdateFrom"}

\* Bytes arrive where a value of the type is expected.
Receive(type, buf) ==
  /\ codec.phase = "idle"
  /\ codec' = [phase |-> "received", type |-> type, value |-> None, wire |-> buf]
  /\ UNCHANGED sys

NextInput ==
  \/ \E type \in EnumTypes : \E buf \in Inputs : Receive(type, buf)
  \/ Decode

SpecInput == InitCodec /\ [][NextInput]_vars

\* ================================================================== claims
\* A step in which node n handles the message at the head of verify_sig.
HandlesMsg(n) ==
  /\ verify_sig[n] # <<>>
  /\ last'.op = "handle_msg"
  /\ last'.node = n
  /\ state[n].consensus_power

\* The Proposal triggers node n queues in a step.
NewProposalTriggers(n) ==
  IF last'.node = n /\ last' # last
  THEN {last'.trig[i] : i \in {j \in 1 .. Len(last'.trig) :
                                 last'.trig[j].trigger_type = "Proposal"}}
  ELSE {}

\* The proposer of the proposal behind a Proposal trigger: the stored signed
\* proposal of the slot, or the node itself for the proposal it makes.
ProposerBehind(n, t) ==
  LET ps == {q \in state'[n].proposals :
               /\ q.proposal.height = t.height /\ q.proposal.round = t.round
               /\ q.proposal.block_hash = t.hash}
  IN IF ps # {} THEN (CHOOSE q \in ps : TRUE).proposal.proposer ELSE state'[n].address

\* C4 with the proposer of (h, r) taken from the authority list auth(n, h).
ProposerAgreement(n, auth(_, _)) ==
  /\ \A q \in state'[n].proposals \ state[n].proposals :
       Some(q.proposal.proposer) =
         get_proposer(auth(n, q.proposal.height), q.proposal.height, q.proposal.round)
  /\ \A t \in NewProposalTriggers(n) :
       Some(ProposerBehind(n, t)) = get_proposer(auth(n, t.height), t.height, t.round)
  /\ (/\ HandlesMsg(n)
      /\ Head(verify_sig[n]).kind = "SignedProposal"
      /\ LET q == Head(verify_sig[n]).msg.proposal
         IN Some(q.proposer) # get_proposer(auth(n, q.height), q.height, q.round))
     => /\ last'.err \in {"ProposalErr", "InvalidAddress"}
        /\ state'[n] = state[n]
        /\ triggers'[n] = triggers[n]

InForceAt(n, h) == AuthOf(h)
HeldBy(n, h) == state[n].authority

\* C4: every proposal a node stores or feeds to SMR for (h, r) is
\* by get_proposer(h, r) of the authority set in force at height h, and a
\* proposal by another address is rejected with an error and changes neither
\* the collectors nor the SMR's queue.
C4_ProposerOfHeight == [][\A n \in Nodes : ProposerAgreement(n, InForceAt)]_vars

\* What verify_proposer does guarantee: the same with the authority list the
\* node holds when it handles the proposal, which for a proposal of a later
\* height is the list of the node's current height.
ProposerOfHeldList == [][\A n \in Nodes : ProposerAgreement(n, HeldBy)]_vars

\* C5: as long as a node stays at a (height, round), the step of its WAL
\* record never goes down in Propose < Prevote < Precommit < Brake < Commit.
C5_WalStepNeverDecreases ==
  [][\A n \in Nodes :
       (/\ wal[n] # None /\ wal'[n] # None
        /\ Unwrap(wal'[n]).height = Unwrap(wal[n]).height
        /\ Unwrap(wal'[n]).round = Unwrap(wal[n]).round
        /\ state'[n].height = state[n].height /\ state'[n].round = state[n].round)
       => StepToU8(Unwrap(wal'[n]).step) >= StepToU8(Unwrap(wal[n]).step)]_vars

\* C6: a node never signs two votes of one type for one (height, round) with
\* different block hashes.
C6_NoEquivocation ==
  \A n \in Nodes : \A v, w \in voted[n] :
    (v.height = w.height /\ v.round = w.round /\ v.vote_type = w.vote_type)
      => v.block_hash = w.block_hash

\* A second proposal with another hash for a slot that holds a proposal is at
\* the head of verify_sig of node n and passes the proposer check and the
\* filter.
SecondProposal(n) ==
  /\ Head(verify_sig[n]).kind = "SignedProposal"
  /\ LET q == Head(verify_sig[n]).msg.proposal
         c == Ctx(n, Env("none", EmptyHash))
     IN /\ verify_proposer(c, q.height, q.round, q.proposer) = Ok
        /\ ~filter_message(c, q.height, q.round)
        /\ \E o \in state[n].proposals :
             /\ o.proposal.height = q.height /\ o.proposal.round = q.round
             /\ o.proposal.block_hash # q.block_hash

\* C9: the second proposal is answered with MultiProposal, the proposals and
\* the blocks State holds stay as they were, and neither a Proposal trigger
\* nor a check_block is issued.
C9_SecondProposalDiscarded ==
  [][\A n \in Nodes :
       (HandlesMsg(n) /\ SecondProposal(n))
       => /\ last'.err = "MultiProposal"
          /\ state'[n].proposals = state[n].proposals
          /\ state'[n].hash_with_block = state[n].hash_with_block
          /\ triggers'[n] = triggers[n]
          /\ checking'[n] = checking[n]]_vars

\* The WAL steps that have to be on disk before an effect of a handler: the
\* step of the message for a signed proposal, vote or choke, Commit for the
\* call of commit.
StepsBefore(e) ==
  IF e[1] = "commit" THEN {"Commit"}
  ELSE IF e[1] # "send" THEN {}
  ELSE IF e[2] = "SignedProposal" THEN {"Propose"}
  ELSE IF e[2] = "SignedVote" THEN {VoteTypeToStep(e[3].vote.vote_type)}
  ELSE IF e[2] = "SignedChoke" THEN {"Brake"}
  ELSE {}

Saved(fx, j, step) == fx[j][1] = "save_wal" /\ fx[j][2] = step

SaveFailed(fx, j) == fx[j][1] = "save_wal_failed"

\* C8: in every handler run the signed proposal, vote or choke is sent, and
\* commit is called, only after the WalInfo of the matching step was saved in
\* that run; after a failed save the run sends no such message and does not
\* call commit.
C8_WriteAhead ==
  \A i \in 1 .. Len(last.fx) :
    \A step \in StepsBefore(last.fx[i]) :
      /\ \E j \in 1 .. i - 1 : Saved(last.fx, j, step)
      /\ \A j \in 1 .. i - 1 : ~SaveFailed(last.fx, j)

\* A run of handle_commit that saved the Commit step and called commit.
C8_Witness ==
  /\ last.op = "handle_event"
  /\ \E i \in 1 .. Len(last.fx) : last.fx[i][1] = "commit"

\* The AggregatedVotes the last handler run built and broadcast.
BuiltQcs ==
  {last.out[i].msg : i \in {j \in 1 .. Len(last.out) : last.out[j].kind = "AggregatedVote"}}

\* The voters the bitmap of qc marks in the authority list auth weigh more
\* than 2/3 of the list, and each has a vote for qc's hash at qc's (height,
\* round, type), signed by itself, in the node's vote collector.
QcBacked(n, auth, qc) ==
  /\ Len(qc.signature.address_bitmap) = Len(auth.current)
  /\ LET marked == BitmapVoters(auth, qc.signature.address_bitmap)
     IN /\ SumVoterWeights(auth, marked) * 3 > get_vote_weight_sum(auth) * 2
        /\ \A v \in marked :
             \E sv \in state[n].votes :
               /\ sv.voter = v /\ sv.signature = v
               /\ sv.vote = [height |-> qc.height, round |-> qc.round,
                             vote_type |-> qc.vote_type, block_hash |-> qc.block_hash]

\* C3: every AggregatedVote a node builds marks voters whose vote_weight,
\* times 3, exceeds twice the total vote_weight of the authority set of the
\* QC's height, and every marked voter voted for the QC's hash at the QC's
\* (height, round, vote_type).
C3_QcThreshold == \A qc \in BuiltQcs : QcBacked(last.node, AuthOf(qc.height), qc)

\* The prevotes node n signs in this step.
NewPrevotes(n) == {v \in voted'[n] \ voted[n] : v.vote_type = Prevote}

\* C2: a node that holds a lock (r, H) at a height signs, in the rounds of
\* that height after r, prevotes for H only; a prevote QC of a later round
\* replaces the lock and a new height drops it.
C2_LockedPrevote ==
  [][\A n \in Nodes : \A v \in NewPrevotes(n) :
       \A lock \in smr[n].lock :
         (v.height = smr[n].height /\ lock.round < v.round) => v.block_hash = lock.hash]_vars

\* The node, locked in round 0, has signed a prevote of round 1 for the
\* locked block while it holds the proposal of round 1 for another block.
C2_Witness ==
  /\ last.op = "handle_event"
  /\ \E lock \in smr[Self].lock :
       /\ lock.round = INIT_ROUND
       /\ [height |-> smr[Self].height, round |-> INIT_ROUND + 1, vote_type |-> Prevote,
           block_hash |-> lock.hash] \in voted[Self]
       /\ \E p \in state[Self].proposals :
            /\ p.proposal.height = smr[Self].height
            /\ p.proposal.round = INIT_ROUND + 1
            /\ p.proposal.block_hash # lock.hash

\* The types that carry an optional lock behind a flag.
LockTypes == {"SignedProposal", "Proposal", "WalInfo"}

LockOf(type, v) == IF type = "SignedProposal" THEN v.proposal.lock ELSE v.lock

\* The first byte of the field list of the Proposal or WalInfo in a wire
\* image: 0x01 for true, 0x80 for false.
FlagByte(type, buf) ==
  IF type = "SignedProposal"
  THEN LET signature == decode_Bytes(payload_of(buf).val)
       IN payload_of(signature.rest).val[1]
  ELSE payload_of(buf).val[1]

\* C10: decoding the encoding of a value of any of the wire types gives the
\* value back and consumes the whole image; the flag written first is true
\* exactly when the value has a lock, and the decoded value has a lock exactly
\* when the flag is true.
C10_RoundTrip ==
  /\ codec.phase = "decoded" => codec.result = DecOk(codec.value, <<>>)
  /\ codec.phase \in {"encoded", "decoded"} /\ codec.type \in LockTypes =>
       /\ FlagByte(codec.type, codec.wire) \in {1, 128}
       /\ FlagByte(codec.type, codec.wire) = 1 <=> LockOf(codec.type, codec.value) # None
  /\ codec.phase = "decoded" /\ codec.type \in LockTypes =>
       /\ codec.result.tag = "Ok"
       /\ LockOf(codec.type, codec.result.val) # None
            <=> FlagByte(codec.type, codec.wire) = 1

\* A signed proposal with a lock has been through the codec and its image
\* needed the long form of the length prefix.
C10_Witness ==
  /\ codec.phase = "decoded"
  /\ codec.type = "SignedProposal"
  /\ codec.value.proposal.lock # None
  /\ codec.wire[1] >= 248
  /\ codec.result.tag = "Ok"
  /\ codec.result.val.proposal.lock # None

\* C11: decoding never panics: whatever bytes arrive, the decoder answers a
\* value or an error.
C11_NeverPanics == codec.phase = "read" => codec.result.tag \in {"Ok", "Err"}

\* The errors of a message that is wrong in itself.
MessageErrors == {"InvalidAddress", "ProposalErr", "MultiProposal", "BrakeErr", "CryptoErr"}

\* C12: when handling a message fails with a message-level error, the error
\* is handed to report_error and the State task goes on running.
C12_ErrorsReported ==
  (last.op = "handle_msg" /\ last.err \in MessageErrors) =>
    /\ \E i \in DOMAIN last.fx : last.fx[i] = <<"report_error", last.err>>
    /\ task[last.node] = "running"

\* A handler of State ran in the step.
Handlers == {"handle_msg", "handle_event", "handle_resp"}

\* C13: a WAL failure is fatal: the step after a handler or the startup of a
\* node ended with SaveWalErr or LoadWalErr is never a handler run of that
\* node.
C13_WalFailureFatal ==
  [][last.err \in {"SaveWalErr", "LoadWalErr"} =>
       ~(last'.node = last.node /\ last'.op \in Handlers)]_vars

\* Stop has just been taken from raw_rx by node n.
StopDelivered(n) == last.node = n /\ last.op = "raw" /\ last.fx = <<<<"raw_rx", "Stop">>>>

\* C14: a Stop delivered to State reaches handle_msg, which sends the Stop
\* trigger to SMR, and then the loop ends: the delivery leaves the task running
\* with Stop on its way to handle_msg, and a State task that is no longer
\* running has sent the Stop trigger (stopped is set with it).
C14_StopShutsDown ==
  \A n \in Nodes :
    /\ StopDelivered(n) => task[n] = "running" /\ StopMsg \in SeqToSet(verify_sig[n])
    /\ task[n] # "running" => state[n].stopped

\* Node n takes status from verify_sig in the step.
HandlesStatus(n, status) ==
  /\ verify_sig[n] # <<>>
  /\ Head(verify_sig[n]) = Msg("RichStatus", status)
  /\ last'.op = "handle_msg"
  /\ last'.node = n

\* C15: goto_new_height with a status of the node's height or below changes
\* nothing of State (height, round, consensus power, authority lists,
\* collectors, hash_with_block), leaves the WAL record as it is and sends no
\* SMR trigger, no message and no block to check; and a status of a later
\* height leaves the node at that height whatever else happens, so that the
\* same status applied again is of this kind.
C15_StaleStatusNoOp ==
  [][\A n \in Nodes : \A m \in Statuses :
       HandlesStatus(n, m.msg) =>
         IF m.msg.height <= state[n].height
         THEN /\ state'[n] = state[n]
              /\ wal'[n] = wal[n]
              /\ triggers'[n] = triggers[n]
              /\ checking'[n] = checking[n]
              /\ verify_sig'[n] = Tail(verify_sig[n])
              /\ net' = net
              /\ last'.err = Ok
         ELSE state'[n].height = m.msg.height]_vars

\* A node past height 1 with a WAL record has just dropped an outdated status.
C15_Witness ==
  /\ last.op = "handle_msg"
  /\ \E h \in Heights : last.fx = <<<<"outdated_status", h>>>>
  /\ state[last.node].height = MaxHeight
  /\ wal[last.node] # None

\* The (height, round) of a signed vote or signed proposal.
HeightRound(m) ==
  IF m.kind = "SignedVote" THEN <<m.msg.vote.height, m.msg.vote.round>>
  ELSE <<m.msg.proposal.height, m.msg.proposal.round>>

\* The conditions under which a message for (height, round) is to be rejected
\* by a node at (h, r).
ToReject(height, round, h, r) ==
  \/ height < h
  \/ height = h /\ round < r
  \/ height > h + FUTURE_HEIGHT_GAP
  \/ height > h /\ round > FUTURE_ROUND_GAP

\* The collectors of a State.
Collectors(st) == <<st.proposals, st.votes, st.qcs, st.chokes, st.choke_qcs>>

\* Node n takes a signed vote or signed proposal from verify_sig in the step.
HandlesSigned(n) ==
  /\ verify_sig[n] # <<>>
  /\ Head(verify_sig[n]).kind \in {"SignedVote", "SignedProposal"}
  /\ last'.op = "handle_msg"
  /\ last'.node = n

\* C16: a signed vote or signed proposal for (height, round) that a node at
\* (self.height, self.round) handles changes no collector and sends no SMR
\* trigger when height < self.height, or height = self.height and
\* round < self.round, or height > self.height + FUTURE_HEIGHT_GAP, or
\* height > self.height and round > FUTURE_ROUND_GAP.
C16_MessageFilter ==
  [][\A n \in Nodes :
       (/\ HandlesSigned(n)
        /\ ToReject(HeightRound(Head(verify_sig[n]))[1], HeightRound(Head(verify_sig[n]))[2],
                    state[n].height, state[n].round))
       => /\ Collectors(state'[n]) = Collectors(state[n])
          /\ triggers'[n] = triggers[n]
          /\ last'.trig = <<>>]_vars

\* A node with consensus power has just dropped a message of a later height
\* within the height gap whose round is beyond the round gap.
C16_Witness ==
  /\ last.op = "handle_msg"
  /\ state[last.node].consensus_power
  /\ \E h \in FilterHeights : \E r \in FilterRounds :
       /\ last.fx = <<<<"filtered", h, r>>>>
       /\ h > state[last.node].height
       /\ h <= state[last.node].height + FUTURE_HEIGHT_GAP
       /\ r > FUTURE_ROUND_GAP

\* Node n, with consensus power, completes in the step a handler that
\* collects a choke of its round: handle_signed_choke on a choke of
\* (self.height, self.round), or handle_brake.
CollectsChoke(n) ==
  /\ last'.node = n
  /\ last'.err = Ok
  /\ state[n].consensus_power
  /\ \/ /\ last'.op = "handle_msg"
        /\ verify_sig[n] # <<>>
        /\ Head(verify_sig[n]).kind = "SignedChoke"
        /\ Head(verify_sig[n]).msg.choke.height = state[n].height
        /\ Head(verify_sig[n]).msg.choke.round = state[n].round
     \/ /\ last'.op = "handle_event"
        /\ events[n] # <<>>
        /\ Head(events[n]).type = "Brake"
        /\ Head(events[n]).height = state[n].height

\* Node n, with consensus power, handles in the step a NewRoundInfo that
\* comes from a choke QC.
EntersByChoke(n) ==
  /\ last'.node = n
  /\ last'.op = "handle_event"
  /\ state[n].consensus_power
  /\ events[n] # <<>>
  /\ Head(events[n]).type = "NewRoundInfo"
  /\ Head(events[n]).from_where.tag = "ChokeQC"

ContinueRounds(trig) == {i \in 1 .. Len(trig) : trig[i].trigger_type = "ContinueRound"}

\* C17: when a handler has collected a choke of the node's round r and the
\* signed chokes held for r number more than two thirds of the authority
\* list, the AggregatedChoke stored for r is that of (height, r) with exactly
\* the voters of those chokes and the one trigger sent is ContinueRound with
\* round r + 1; with fewer chokes no ContinueRound is sent; and on the
\* NewRoundInfo that comes from the choke QC of r the node enters round r + 1
\* with update_from the stored choke QC of r.
C17_ChokeRoundChange ==
  [][\A n \in Nodes :
       /\ CollectsChoke(n) =>
            LET r == state[n].round
                held == get_chokes(state'[n].chokes, r)
            IN IF Cardinality(held) * 3 > AuthLen(state[n].authority) * 2
               THEN /\ \E ac \in ChokeQcGet(state'[n].choke_qcs, r) :
                         /\ ac.height = state[n].height
                         /\ ac.round = r
                         /\ SeqToSet(ac.voters) = {sc.address : sc \in held}
                         /\ Len(ac.voters) = Cardinality(held)
                    /\ Len(last'.trig) = 1
                    /\ last'.trig[1].trigger_type = "ContinueRound"
                    /\ last'.trig[1].round = r + 1
                    /\ last'.trig[1].height = state[n].height
               ELSE ContinueRounds(last'.trig) = {}
       /\ EntersByChoke(n) =>
            /\ state'[n].round = Head(events[n]).from_where.round + 1
            /\ state'[n].update_from_where.tag = "ChokeQC"
            /\ Some(state'[n].update_from_where.qc) =
                 ChokeQcGet(state[n].choke_qcs, Head(events[n]).from_where.round)]_vars

\* The node has entered round 1 from the choke QC of round 0 that it built
\* itself from its own choke and those of two others.
C17_Witness ==
  /\ last.op = "handle_event"
  /\ state[Self].round = INIT_ROUND + 1
  /\ state[Self].update_from_where.tag = "ChokeQC"
  /\ state[Self].update_from_where.qc.round = INIT_ROUND
  /\ Self \in SeqToSet(state[Self].update_from_where.qc.voters)
  /\ Len(state[Self].update_from_where.qc.voters) = 3

\* Node n, with consensus power, handles a NewRoundInfo in the step.
HandlesNewRound(n) ==
  /\ last'.node = n
  /\ last'.op = "handle_event"
  /\ state[n].consensus_power
  /\ events[n] # <<>>
  /\ Head(events[n]).type = "NewRoundInfo"

\* The node is the proposer of (height, round) under the list it holds.
LeaderOf(st, height, round) == get_proposer(st.authority, height, round) = Some(st.address)

\* The reason a node in state st is to report for leaving its round on a
\* NewRoundInfo that comes from from_where; for a leader, the reason without
\* the vote type.
ReasonFor(st, from_where) ==
  IF from_where.round # st.round THEN <<"UpdateFromHigher" \o from_where.tag>>
  ELSE IF LeaderOf(st, st.height, st.round) THEN <<"LeaderReceivedVoteBelowThreshold">>
  ELSE IF ProposalGet(st.proposals, st.height, st.round) = None
       THEN <<"NoProposalFromNetwork">>
  ELSE IF ~MapHas(st.is_full_transaction,
                  Unwrap(ProposalGet(st.proposals, st.height, st.round)).proposal.block_hash)
       THEN <<"CheckBlockNotPass">>
  ELSE IF get_qc_by_id(st.qcs, st.height, st.round, Prevote) = None
       THEN <<"NoPrevoteQCFromNetwork">>
  ELSE IF get_qc_by_id(st.qcs, st.height, st.round, Precommit) = None
       THEN <<"NoPrecommitQCFromNetwork">>
  ELSE <<"Others">>

\* C18: on a NewRoundInfo of round 0 no view change is reported; on one of a
\* later round exactly one is, for the height and the round the node leaves,
\* and its reason is UpdateFromHigher{PrevoteQC, PrecommitQC, ChokeQC} when
\* the round the event comes from is not the round left, else
\* LeaderReceivedVoteBelowThreshold when the node was the proposer of the
\* round left, else NoProposalFromNetwork, CheckBlockNotPass,
\* NoPrevoteQCFromNetwork, NoPrecommitQCFromNetwork or Others by the first
\* piece of evidence missing for the round left.
C18_ViewChangeReason ==
  [][\A n \in Nodes :
       HandlesNewRound(n) =>
         IF Head(events[n]).round = INIT_ROUND THEN last'.views = <<>>
         ELSE /\ Len(last'.views) = 1
              /\ last'.views[1].height = state[n].height
              /\ last'.views[1].round = state[n].round
              /\ <<last'.views[1].reason[1]>> = ReasonFor(state[n], Head(events[n]).from_where)]_vars

\* A replica that saw no proposal in round 0 and left it on the precommit QC
\* on the empty hash has reported NoProposalFromNetwork.
C18_Witness ==
  /\ last.op = "handle_event"
  /\ last.views = <<[height |-> 1, round |-> INIT_ROUND, reason |-> <<"NoProposalFromNetwork">>]>>
  /\ state[last.node].round = INIT_ROUND + 1
  /\ state[last.node].update_from_where.tag = "PrecommitQC"
  /\ ~LeaderOf(state[last.node], 1, INIT_ROUND)

\* Node n starts in the step from a WAL record that carries a lock, and
\* start_with_wal returns Ok.
StartsFromLock(n) ==
  /\ last'.node = n
  /\ last'.op = "start_with_wal"
  /\ last'.err = Ok
  /\ wal[n] # None
  /\ Unwrap(wal[n]).lock # None

\* The SMRBase of a WAL record.
BaseOf(rec) ==
  [height |-> rec.height, round |-> rec.round, step |-> rec.step,
   polc |-> Some([round |-> Unwrap(rec.lock).lock_round,
                  hash |-> Unwrap(rec.lock).lock_votes.block_hash])]

\* After the step node n is where the record rec says, holds the record's
\* QC and block, and has handed the record's SMRBase to SMR.
Rehydrated(n, rec) ==
  /\ state'[n].height = rec.height
  /\ state'[n].round = rec.round
  /\ state'[n].update_from_where = rec.from
  /\ Unwrap(rec.lock).lock_votes \in state'[n].qcs
  /\ MapHas(state'[n].hash_with_block, Unwrap(rec.lock).lock_votes.block_hash)
  /\ state'[n].hash_with_block[Unwrap(rec.lock).lock_votes.block_hash]
       = Unwrap(rec.lock).content
  /\ \E i \in 1 .. Len(last'.trig) :
       /\ last'.trig[i].trigger_type = "WalInfo"
       /\ last'.trig[i].wal_info = Some(BaseOf(rec))

StartsWithPower(n) == is_consensus_node(StatusOf(state[n].height), n)

HandlesCommit(n) ==
  /\ last'.node = n
  /\ last'.op = "handle_event"
  /\ state[n].consensus_power
  /\ events[n] # <<>>
  /\ Head(events[n]).type = "Commit"

\* The block of hash, or the precommit QC on hash of the node's height, is
\* missing.
CommitEvidenceMissing(st, hash) ==
  \/ ~MapHas(st.hash_with_block, hash)
  \/ get_qc_by_hash(st.qcs, st.height, hash, Precommit) = None

\* What handle_commit leaves alone when it fails for missing evidence: no
\* WAL record is saved, commit is not called, height and round stay.
CommitUntouched(n) ==
  /\ wal'[n] = wal[n]
  /\ \A i \in 1 .. Len(last'.fx) : last'.fx[i][1] \notin {"save_wal", "commit"}
  /\ committed'[n] = committed[n]
  /\ state'[n].height = state[n].height
  /\ state'[n].round = state[n].round

\* C20: handle_commit on Commit(hash) fails with StorageErr, saves no
\* Commit record, does not call commit and changes neither height nor round
\* when the block of hash is missing from hash_with_block or no precommit QC
\* on hash is stored for the current height.
C20_CommitStorageErr ==
  [][\A n \in Nodes :
       (HandlesCommit(n) /\ CommitEvidenceMissing(state[n], Head(events[n]).block_hash))
       => (last'.err = "StorageErr" /\ CommitUntouched(n))]_vars

\* The part of C20 that does not name the error: handle_commit fails and
\* leaves WAL, application, height and round alone.
CommitFailsUntouched ==
  [][\A n \in Nodes :
       (HandlesCommit(n) /\ CommitEvidenceMissing(state[n], Head(events[n]).block_hash))
       => (last'.err # Ok /\ CommitUntouched(n))]_vars

\* No collaborator call has failed up to the end of the step.
NoFailureYet == budget'.fault = MaxFault

\* Node n handles the Commit event of its own height.
DecidesOwnHeight(n) ==
  /\ HandlesCommit(n)
  /\ Head(events[n]).height = state[n].height
  /\ NoFailureYet

\* The Commit the application is to receive for hash at the node's height:
\* the stored content and the proof built from the stored precommit QC.
CommitOf(st, hash) ==
  LET qc == Unwrap(get_qc_by_hash(st.qcs, st.height, hash, Precommit))
  IN [height |-> st.height, content |-> st.hash_with_block[hash],
      proof |-> [height |-> st.height, round |-> qc.round, block_hash |-> hash,
                 signature |-> qc.signature]]

\* No two Commits handed to the application name one height.
OncePerHeight(commits) ==
  \A i, j \in 1 .. Len(commits) : commits[i].height = commits[j].height => i = j

DroppedByFilter == \E i \in 1 .. Len(last'.fx) : last'.fx[i][1] = "filtered"

\* The message handled in the step left the collectors and the SMR alone.
LeftAlone(n) ==
  /\ Collectors(state'[n]) = Collectors(state[n])
  /\ triggers'[n] = triggers[n]
  /\ last'.trig = <<>>

C22_AcceptedAtRoundOne ==
  /\ last.op = "handle_msg"
  /\ state[last.node].consensus_power
  /\ state[last.node].round = 1
  /\ \E v \in state[last.node].votes :
       v.vote.height = state[last.node].height /\ v.vote.round = FUTURE_ROUND_GAP + 1

\* Node n takes from verify_sig a proposal, vote, aggregated vote or choke of
\* a height above its own.
HandlesLater(n) ==
  /\ verify_sig[n] # <<>>
  /\ Head(verify_sig[n]).kind \in
       {"SignedProposal", "SignedVote", "AggregatedVote", "SignedChoke"}
  /\ get_height(Head(verify_sig[n])) > state[n].height
  /\ last'.op = "handle_msg"
  /\ last'.node = n

\* C24: a proposal, vote, aggregated vote or choke of a height above
\* self.height that a node handles sends no SMR trigger, no broadcast and no
\* transmit and writes no WAL record; it changes at most the proposal and
\* vote collectors.
C24_LaterHeightOnlyStored ==
  [][\A n \in Nodes :
       HandlesLater(n)
       => /\ last'.trig = <<>> /\ triggers'[n] = triggers[n]
          /\ last'.out = <<>> /\ net' = net
          /\ wal'[n] = wal[n]
          /\ \A i \in 1 .. Len(last'.fx) :
                last'.fx[i][1] \notin {"save_wal", "save_wal_failed", "send", "trigger"}
          /\ checking'[n] = checking[n]
          /\ state'[n] = [state[n] EXCEPT !.proposals = state'[n].proposals,
                                          !.votes = state'[n].votes,
                                          !.qcs = state'[n].qcs]]_vars

\* A node with consensus power has just stored a QC of a later height and
\* holds a vote and a proposal of that height too.
C24_Witness ==
  /\ last.op = "handle_msg"
  /\ last.fx = <<>>
  /\ state[last.node].consensus_power
  /\ \E q \in state[last.node].qcs : q.height > state[last.node].height
  /\ \/ \E v \in state[last.node].votes : v.vote.height > state[last.node].height
     \/ \E p \in state[last.node].proposals : p.proposal.height > state[last.node].height

\* The signed votes the node holds for the slot and hash of qc.
VotesBehind(n, qc) ==
  get_votes(state[n].votes, qc.height, qc.round, qc.vote_type, qc.block_hash)

\* The PrevoteQC and PrecommitQC triggers the last handler run sent.
QcTriggers ==
  {last.trig[i] : i \in {j \in 1 .. Len(last.trig) :
                           last.trig[j].trigger_type \in {"PrevoteQC", "PrecommitQC"}}}

\* The stored QCs a QC trigger stands for.
QcsBehind(n, t) ==
  {q \in state[n].qcs : /\ q.height = t.height /\ q.round = t.round
                        /\ VoteTypeToTrigger(q.vote_type) = t.trigger_type
                        /\ q.block_hash = t.hash}

\* C23: every signed vote counted toward a QC the node builds carries a
\* signature that verifies, and every AggregatedVote behind a PrevoteQC or
\* PrecommitQC trigger verifies against the node's authority set.
C23_OnlyVerifiedSignatures ==
  last.op \in {"handle_msg", "handle_event", "handle_resp"} =>
    /\ \A qc \in BuiltQcs : \A sv \in VotesBehind(last.node, qc) :
         SigValid(state[last.node].authority, Msg("SignedVote", sv))
    /\ \A t \in QcTriggers : \A q \in QcsBehind(last.node, t) :
         SigValid(state[last.node].authority, Msg("AggregatedVote", q))

\* The first half of C23 alone: the votes behind a QC the node builds.
BuiltFromVerifiedVotes ==
  last.op \in {"handle_msg", "handle_event", "handle_resp"} =>
    \A qc \in BuiltQcs : \A sv \in VotesBehind(last.node, qc) :
      SigValid(state[last.node].authority, Msg("SignedVote", sv))

\* Node n takes from verify_sig an AggregatedVote on the empty hash of its
\* height that is not of a past round.
HandlesEmptyQc(n) ==
  /\ verify_sig[n] # <<>>
  /\ Head(verify_sig[n]).kind = "AggregatedVote"
  /\ Head(verify_sig[n]).msg.block_hash = EmptyHash
  /\ Head(verify_sig[n]).msg.height = state[n].height
  /\ Head(verify_sig[n]).msg.round >= state[n].round
  /\ state[n].consensus_power
  /\ last'.op = "handle_msg"
  /\ last'.node = n

\* C25: a PrevoteQC or PrecommitQC trigger with a non-empty hash H is sent
\* only when State has recorded a successful check_block answer for H at the
\* node's current height; a QC on the empty hash is triggered without a
\* check.
C25_BlockCheckGate ==
  [][\A n \in Nodes :
       /\ last'.node = n =>
            \A i \in 1 .. Len(last'.trig) :
              (/\ last'.trig[i].trigger_type \in {"PrevoteQC", "PrecommitQC"}
               /\ last'.trig[i].hash # EmptyHash)
              => [height |-> state'[n].height, block_hash |-> last'.trig[i].hash]
                   \in checked'[n]
       /\ HandlesEmptyQc(n) =>
            \E i \in 1 .. Len(last'.trig) :
              /\ last'.trig[i].trigger_type \in {"PrevoteQC", "PrecommitQC"}
              /\ last'.trig[i].hash = EmptyHash]_vars

\* Within one height the gate of C25 holds: the hash of a QC trigger has a
\* recorded check_block answer of some height.
CheckedAtSomeHeight ==
  [][\A n \in Nodes :
       last'.node = n =>
         \A i \in 1 .. Len(last'.trig) :
           (/\ last'.trig[i].trigger_type \in {"PrevoteQC", "PrecommitQC"}
            /\ last'.trig[i].hash # EmptyHash)
           => \E k \in checked'[n] : k.block_hash = last'.trig[i].hash]_vars

\* Node n, with consensus power, handles the answer of a check_block task.
HandlesResp(n) ==
  /\ last'.op = "handle_resp"
  /\ last'.node = n
  /\ state[n].consensus_power

\* The task whose answer node n handles in the step.
Answered(n) == CHOOSE t \in checking[n] : t \notin checking'[n]

\* The QCs of vote_type on hash that node n holds for its height.
StoredOn(n, vote_type, hash) ==
  {q \in state[n].qcs : /\ q.height = state[n].height /\ q.block_hash = hash
                        /\ q.vote_type = vote_type}

\* The triggers sent in the step are one trigger of the type for hash at
\* the node's height, with one of the rounds.
OneQcTrigger(n, type, hash, rounds) ==
  /\ Len(last'.trig) = 1
  /\ last'.trig[1].trigger_type = type
  /\ last'.trig[1].hash = hash
  /\ last'.trig[1].height = state[n].height
  /\ last'.trig[1].round \in rounds

C26_OtherHeightDropped ==
  /\ last.op = "handle_resp"
  /\ state[last.node].consensus_power
  /\ state[last.node].height = MaxHeight
  /\ last.trig = <<>>
  /\ ~MapHas(state[last.node].is_full_transaction, TheBlock)

\* A check_block answer has just released the stored prevote QC of the round.
C26_PrevoteReleased ==
  /\ last.op = "handle_resp"
  /\ Len(last.trig) = 1
  /\ last.trig[1].trigger_type = "PrevoteQC"
  /\ last.trig[1].hash = TheBlock

\* A check_block answer found only a prevote QC of another round and sent
\* nothing.
C26_PrevoteOfOtherRound ==
  /\ last.op = "handle_resp"
  /\ last.trig = <<>>
  /\ state[last.node].consensus_power
  /\ MapHas(state[last.node].is_full_transaction, TheBlock)
  /\ \E q \in state[last.node].qcs :
       /\ q.height = state[last.node].height /\ q.block_hash = TheBlock
       /\ q.vote_type = Prevote /\ q.round # state[last.node].round

\* Node n with consensus power takes an aggregated vote from verify_sig.
HandlesQc(n) ==
  /\ verify_sig[n] # <<>>
  /\ Head(verify_sig[n]).kind = "AggregatedVote"
  /\ state[n].consensus_power
  /\ last'.op = "handle_msg"
  /\ last'.node = n

\* C27: handle_aggregated_vote drops a QC of a height below self.height;
\* stores, without a trigger, every QC of a later height with
\* height <= self.height + FUTURE_HEIGHT_GAP and round <= FUTURE_ROUND_GAP;
\* and stores a QC of self.height (of a round that is not over), sending the
\* trigger exactly when the hash is empty or the block's check has passed.
C27_QcTriage ==
  [][\A n \in Nodes :
       HandlesQc(n) =>
         LET av == Head(verify_sig[n]).msg
             st == state[n]
         IN /\ av.height < st.height => LeftAlone(n)
            /\ (/\ av.height > st.height
                /\ av.height <= st.height + FUTURE_HEIGHT_GAP
                /\ av.round <= FUTURE_ROUND_GAP)
               => (av \in state'[n].qcs /\ last'.trig = <<>>)
            /\ (av.height = st.height /\ av.round >= st.round)
               => /\ av \in state'[n].qcs
                  /\ IF av.block_hash = EmptyHash \/ try_get_full_txs(st, av.block_hash)
                     THEN OneQcTrigger(n, VoteTypeToTrigger(av.vote_type),
                                       av.block_hash, {av.round})
                     ELSE last'.trig = <<>>]_vars

\* What the code does with a QC of a later height: it is stored exactly when
\* height < self.height + FUTURE_HEIGHT_GAP and round < FUTURE_ROUND_GAP.
C27_StrictGap ==
  [][\A n \in Nodes :
       HandlesQc(n) =>
         LET av == Head(verify_sig[n]).msg
             st == state[n]
         IN /\ av.height < st.height => LeftAlone(n)
            /\ av.height > st.height
               => /\ last'.trig = <<>>
                  /\ IF av.height < st.height + FUTURE_HEIGHT_GAP
                        /\ av.round < FUTURE_ROUND_GAP
                     THEN av \in state'[n].qcs
                     ELSE LeftAlone(n)
            /\ (av.height = st.height /\ av.round >= st.round)
               => /\ av \in state'[n].qcs
                  /\ IF av.block_hash = EmptyHash \/ try_get_full_txs(st, av.block_hash)
                     THEN OneQcTrigger(n, VoteTypeToTrigger(av.vote_type),
                                       av.block_hash, {av.round})
                     ELSE last'.trig = <<>>]_vars

\* The voters of a choke QC are distinct members of the authority list and
\* their vote_weight, times 3, exceeds twice the total vote_weight.
BackedByWeight(auth, ac) ==
  LET vs == SeqToSet(ac.voters)
  IN /\ Cardinality(vs) = Len(ac.voters)
     /\ vs \subseteq AuthAddresses(auth.current)
     /\ SumVoterWeights(auth, vs) * 3 > get_vote_weight_sum(auth) * 2

\* C28: every AggregatedChoke a node holds, built by
\* check_choke_above_threshold or taken by handle_aggregated_choke, is backed
\* by distinct members of the current authority list whose total vote_weight
\* strictly exceeds 2/3 of the total vote_weight.
C28_ChokeQcByWeight ==
  \A n \in Nodes :
    \A ac \in state[n].choke_qcs : BackedByWeight(state[n].authority, ac)

\* What the code ensures: the voters of a held AggregatedChoke number more
\* than 2/3 of the length of the authority list.
C28_ChokeQcByCount ==
  \A n \in Nodes :
    \A ac \in state[n].choke_qcs :
      Len(ac.voters) * 3 > AuthLen(state[n].authority) * 2

\* Node n goes to a later height in the step and has consensus power there.
Advances(n) ==
  /\ state'[n].height > state[n].height
  /\ state'[n].consensus_power

\* C29: after a node advances from height h - 1 to height h, by its own
\* commit or by a RichStatus, the current authority list is the list of the
\* status of h and the previous list is the list that was current at h - 1.
C29_PriorEpochKept ==
  [][\A n \in Nodes :
       Advances(n) =>
         /\ state'[n].authority.current = SortNodes(AuthorityAt(state'[n].height))
         /\ state'[n].authority.last = state[n].authority.current]_vars

\* What the code does: a RichStatus leaves the list of h - 1 as the previous
\* list; a commit leaves the list of the new status as both.
C29_ByStatusOnly ==
  [][\A n \in Nodes :
       Advances(n) =>
         /\ state'[n].authority.current = SortNodes(AuthorityAt(state'[n].height))
         /\ state'[n].authority.last =
              IF last'.op = "handle_event" THEN state'[n].authority.current
              ELSE state[n].authority.current]_vars

\* C30: whenever consensus_power is true, the current authority list is not
\* empty and holds the node's own address, also after the application has
\* answered a commit with a status that is not above the node's height.
C30_PowerMeansListed ==
  \A n \in Nodes :
    state[n].consensus_power
    => /\ AuthLen(state[n].authority) > 0
       /\ AuthContains(state[n].authority, state[n].address)

\* No step but a commit takes the node's address out of its current
\* authority list while it has consensus power.
C30_ListedButForCommit ==
  [][\A n \in Nodes :
       (/\ state'[n].consensus_power
        /\ AuthContains(state[n].authority, state[n].address)
        /\ ~AuthContains(state'[n].authority, state'[n].address))
       => /\ last'.op = "handle_event"
          /\ \E i \in 1 .. Len(last'.fx) : last'.fx[i][1] = "commit"
          /\ state'[n].height = state[n].height]_vars

\* Node n takes from its events the NewRoundInfo of round 1 of its height
\* that carries the lock (0, TheBlock), and is the proposer of that round.
ProposerCarriesLock(n) ==
  /\ events[n] # <<>>
  /\ Head(events[n]).type = "NewRoundInfo"
  /\ Head(events[n]).height = state[n].height
  /\ Head(events[n]).round = INIT_ROUND + 1
  /\ Head(events[n]).lock_round = Some(INIT_ROUND)
  /\ Head(events[n]).lock_proposal = Some(TheBlock)
  /\ LeaderOf(state[n], state[n].height, INIT_ROUND + 1)
  /\ state[n].consensus_power
  /\ last'.op = "handle_event"
  /\ last'.node = n

\* The proposal of (height, 1) for TheBlock by node n with the PoLC of round 0.
LockedProposal(n, height) ==
  [signature |-> n,
   proposal |-> [height |-> height, round |-> INIT_ROUND + 1,
                 content |-> BlockOf(TheBlock), block_hash |-> TheBlock,
                 lock |-> Some([lock_round |-> INIT_ROUND,
                                lock_votes |-> QcOf(CarrierPeers, Prevote, height,
                                                    INIT_ROUND, TheBlock)]),
                 proposer |-> n]]

\* The SMR of node n is in round 1 of height 1 with a lock on TheBlock.
HoldsLock(n) ==
  /\ smr[n].height = 1
  /\ smr[n].round = INIT_ROUND + 1
  /\ \E l \in smr[n].lock : l.hash = TheBlock

\* Node n has signed the prevote and the precommit of (1, 1) for TheBlock
\* and handed the application the Commit of TheBlock with a proof of round 1.
DecidedInRoundOne(n) ==
  /\ \A t \in {Prevote, Precommit} :
        [height |-> 1, round |-> INIT_ROUND + 1, vote_type |-> t,
         block_hash |-> TheBlock] \in voted[n]
  /\ \E i \in 1 .. Len(committed[n]) :
        /\ committed[n][i].height = 1
        /\ committed[n][i].content = BlockOf(TheBlock)
        /\ committed[n][i].proof.block_hash = TheBlock
        /\ committed[n][i].proof.round = INIT_ROUND + 1

\* The proposer of (h, 1) that holds the lock broadcasts the proposal of H
\* with PoLC{lock_round 0, lock_votes = the prevote QC of round 0}, and
\* every vote a node that holds the lock signs in round 1 is for H.
LockCarried ==
  [][\A n \in Nodes :
       /\ ProposerCarriesLock(n)
          => \E i \in 1 .. Len(last'.out) :
               last'.out[i] = [to |-> None, kind |-> "SignedProposal",
                               msg |-> LockedProposal(n, state[n].height)]
       /\ \A v \in voted'[n] \ voted[n] :
            (HoldsLock(n) /\ v.height = 1 /\ v.round = INIT_ROUND + 1)
            => v.block_hash = TheBlock]_vars

\* With the votes of more than 2/3 of the weight on their way, a node that
\* holds the lock in round 1 comes to prevote and precommit H in round 1 and
\* to commit H with a proof of round 1, in every behaviour in which the
\* messages are delivered and handled.
CommitsInRoundOne ==
  <>Done(Carrier) => (HoldsLock(Carrier) ~> DecidedInRoundOne(Carrier))

\* C21: a prevote QC on H formed at (h, 0) and no precommit QC did. The
\* proposer of (h, 1) that holds the lock broadcasts a proposal with
\* block_hash H and PoLC{lock_round 0, lock_votes = the prevote QC of round
\* 0}; a node that holds the lock prevotes and precommits H in round 1; and
\* H is committed at (h, 1) once the votes of more than 2/3 of the weight
\* have reached it.
C21_LockCarry == LockCarried /\ CommitsInRoundOne

\* The carrier has proposed the locked block in round 1 with the PoLC of
\* round 0, voted for it twice and committed it in round 1.
C21_Witness ==
  /\ DecidedInRoundOne(Carrier)
  /\ Done(Carrier)
  /\ state[Carrier].height = 2

\* The invariant of a proposal's PoLC.
PolcWellFormed(proposal) ==
  \A polc \in proposal.lock :
    /\ polc.lock_votes.vote_type = Prevote
    /\ polc.lock_votes.height = proposal.height
    /\ polc.lock_votes.round = polc.lock_round
    /\ polc.lock_round + 1 <= proposal.round
    /\ polc.lock_votes.block_hash = proposal.block_hash

\* The step sends a Proposal trigger to SMR.
FeedsProposal ==
  \E i \in 1 .. Len(last'.trig) : last'.trig[i].trigger_type = "Proposal"

\* C31: every proposal with a PoLC that State broadcasts as leader, or
\* accepts as replica and feeds to SMR as a Proposal trigger, has
\* lock_votes.vote_type = Prevote, lock_votes.height = proposal.height,
\* lock_votes.round = lock_round <= proposal.round - 1 and
\* lock_votes.block_hash = proposal.block_hash.
C31_PolcInvariant ==
  [][\A n \in Nodes :
       /\ (/\ HandlesMsg(n)
           /\ Head(verify_sig[n]).kind = "SignedProposal"
           /\ FeedsProposal)
          => PolcWellFormed(Head(verify_sig[n]).msg.proposal)
       /\ \A i \in 1 .. Len(last'.out) :
            (last'.node = n /\ last' # last /\ last'.out[i].kind = "SignedProposal")
            => PolcWellFormed(last'.out[i].msg.proposal)]_vars

\* The part of it about the leader: every proposal a node broadcasts keeps
\* the invariant of the PoLC.
PolcOfLeader ==
  [][\A i \in 1 .. Len(last'.out) :
       (last' # last /\ last'.out[i].kind = "SignedProposal")
       => PolcWellFormed(last'.out[i].msg.proposal)]_vars


\* ------------------------------------------------------------------- C32
\* The lock of a WAL record is a prevote QC of the record's lock round with
\* the block of the QC's hash.
LockOfPrevote(rec) ==
  LET lock == Unwrap(rec.lock)
  IN /\ lock.lock_votes.vote_type = Prevote
     /\ lock.lock_votes.round = lock.lock_round
     /\ lock.content = BlockOf(lock.lock_votes.block_hash)

\* The lock of a Commit record is the precommit QC of the decided hash with
\* the block of that hash.
LockOfDecision(rec) ==
  LET lock == Unwrap(rec.lock)
  IN /\ lock.lock_votes.vote_type = Precommit
     /\ lock.content = BlockOf(lock.lock_votes.block_hash)

Locked(n) == wal[n] # None /\ Unwrap(wal[n]).lock # None

StartsFromWal(n) ==
  /\ last'.node = n
  /\ last'.op = "start_with_wal"
  /\ wal[n] # None

\* What the startup has done: committed again, braked again, handed the
\* record to SMR.
CommitsAgain == \E i \in 1 .. Len(last'.fx) : last'.fx[i][1] = "commit"
BrakesAgain ==
  /\ \E i \in 1 .. Len(last'.fx) : last'.fx[i] = <<"save_wal", "Brake">>
  /\ \E i \in 1 .. Len(last'.out) : last'.out[i].kind = "SignedChoke"
HandsWalInfo == \E i \in 1 .. Len(last'.trig) : last'.trig[i].trigger_type = "WalInfo"

\* The startup from a Commit record: handle_commit again and no WalInfo
\* trigger; without a lock LoadWalErr and no commit.
FromCommitRecord(rec) ==
  /\ ~BrakesAgain
  /\ ~HandsWalInfo
  /\ IF rec.lock = None THEN last'.err = "LoadWalErr" /\ ~CommitsAgain
     ELSE last'.err = Ok => CommitsAgain

RecommitsFromWal ==
  /\ last.op = "start_with_wal"
  /\ last.err = Ok
  /\ \E i \in 1 .. Len(last.fx) : last.fx[i][1] = "commit"


\* ------------------------------------------------------------------- C34
\* A handler of node n has completed goto_new_height of a later height and
\* the node keeps its consensus power.
GoesToNewHeight(n) ==
  /\ last'.node = n
  /\ last'.op \in Handlers
  /\ last'.err = Ok
  /\ state'[n].height > state[n].height
  /\ state'[n].consensus_power

\* The state goto_new_height leaves behind at height h.
AtNewHeight(n, h) ==
  /\ state'[n].round = INIT_ROUND
  /\ \A p \in state'[n].proposals : p.proposal.height > h - 1
  /\ \A v \in state'[n].votes : v.vote.height > h - 1
  /\ \A q \in state'[n].qcs : q.height > h - 1
  /\ state'[n].hash_with_block = EmptyMap
  /\ state'[n].chokes = {}
  /\ wal'[n] = Some([height |-> h, round |-> INIT_ROUND, step |-> "Propose",
                     from |-> state'[n].update_from_where, lock |-> None])
  /\ \E i \in 1 .. Len(last'.trig) :
       /\ last'.trig[i].trigger_type = "NewHeight"
       /\ last'.trig[i].height = h
       /\ last'.trig[i].round = INIT_ROUND

\* C34: after goto_new_height(status) with status.height = h > self.height
\* has completed on a node that keeps consensus power, State is at (h, 0),
\* the proposal and vote collectors hold no entry of height <= h - 1,
\* hash_with_block and the choke collector are empty, a Propose record of
\* (h, 0) without lock is saved and a NewHeight trigger of h is sent to SMR.
C34_NewHeightState ==
  [][\A n \in Nodes : GoesToNewHeight(n) => AtNewHeight(n, state'[n].height)]_vars

\* The node has decided height 1 with the proposal and the QC of the height
\* in its collectors and has gone to height 2.
C34_Witness ==
  /\ last.op = "handle_event"
  /\ last.err = Ok
  /\ \E i \in 1 .. Len(last.fx) : last.fx[i][1] = "commit"
  /\ state[last.node].height = 2
  /\ state[last.node].consensus_power
  /\ wal[last.node] # None
  /\ Unwrap(wal[last.node]).step = "Propose"
  /\ \E i \in 1 .. Len(last.trig) : last.trig[i].trigger_type = "NewHeight"


\* ------------------------------------------------------------------- C35
\* Trigger t is stale for the SMR s: of another height, or of a round below
\* the SMR's (not above it for ContinueRound).
StaleTrigger(s, t) ==
  /\ t.trigger_type \in StepTriggers
  /\ \/ t.height # s.height
     \/ IF t.trigger_type = "ContinueRound" THEN t.round <= s.round
        ELSE t.round < s.round

\* The SMR task of node n takes trigger t in this step.
Takes(n, t) ==
  /\ last'.node = n
  /\ \/ last'.op = "smr" /\ triggers[n] # <<>> /\ t = Head(triggers[n])
     \/ last'.op = "trigger" /\ last'.fx = <<t>>

\* C35: a Proposal, PrevoteQC, PrecommitQC, step-timeout, BrakeTimeout or
\* ContinueRound trigger whose height differs from SMR's height, or whose
\* round is below SMR's round (for ContinueRound: not above it), leaves SMR's
\* step, round and lock unchanged and emits no event.
C35_StaleTriggerIgnored ==
  [][\A n \in Nodes : \A t \in SmrTriggers :
       (Takes(n, t) /\ StaleTrigger(smr[n], t))
       => /\ smr'[n].step = smr[n].step
          /\ smr'[n].round = smr[n].round
          /\ smr'[n].lock = smr[n].lock
          /\ events'[n] = events[n]]_vars

\* The SMR, past round 0 and holding a lock, has taken a precommit QC
\* trigger of a round below its own.
C35_Witness ==
  /\ last.op = "trigger"
  /\ smr[last.node].round > INIT_ROUND
  /\ smr[last.node].lock # None
  /\ last.fx[1].trigger_type = "PrecommitQC"
  /\ last.fx[1].source = "State"
  /\ last.fx[1].hash # EmptyHash
  /\ last.fx[1].height = smr[last.node].height
  /\ last.fx[1].round < smr[last.node].round


\* ------------------------------------------------------------------- C36
\* Node n holds the proposal sp of the proposer of a later round of its
\* height.
Cached(n, sp) ==
  /\ sp \in state[n].proposals
  /\ sp.proposal.height = state[n].height
  /\ sp.proposal.round > state[n].round
  /\ get_proposer(state[n].authority, sp.proposal.height, sp.proposal.round)
       = Some(sp.proposal.proposer)

\* Node n, not the proposer, enters the round of sp on an event of SMR.
EntersRoundOf(n, sp) ==
  /\ last'.node = n
  /\ last'.op = "handle_event"
  /\ state'[n].height = state[n].height
  /\ state'[n].round = sp.proposal.round
  /\ get_proposer(state[n].authority, state[n].height, sp.proposal.round) # Some(n)

\* The step handles sp: its block is recorded, a Proposal trigger with its
\* hash and lock round is sent to SMR and check_block is dispatched.
HandlesCached(n, sp) ==
  /\ MapHas(state'[n].hash_with_block, sp.proposal.block_hash)
  /\ state'[n].hash_with_block[sp.proposal.block_hash] = sp.proposal.content
  /\ \E i \in 1 .. Len(last'.trig) :
       /\ last'.trig[i].trigger_type = "Proposal"
       /\ last'.trig[i].hash = sp.proposal.block_hash
       /\ last'.trig[i].round = sp.proposal.round
       /\ last'.trig[i].lock_round
            = (IF sp.proposal.lock = None THEN None
               ELSE Some(Unwrap(sp.proposal.lock).lock_round))
  /\ \E t \in last'.chk :
       /\ t.block_hash = sp.proposal.block_hash
       /\ t.round = sp.proposal.round
       /\ t.block = sp.proposal.content

\* C36: a proposal of the proposer of (self.height, r') that arrived while
\* the node was in a round r < r' is cached, and when the node enters round
\* r' as a non-proposer the cached proposal is handled without being
\* received again: its block is recorded, a Proposal trigger with its hash
\* and lock round is sent to SMR and check_block is dispatched.
C36_CachedProposalHandled ==
  [][\A n \in Nodes : \A sp \in state[n].proposals :
       (Cached(n, sp) /\ EntersRoundOf(n, sp)) => HandlesCached(n, sp)]_vars

\* The node has entered round 1 with the proposal of round 1 in its
\* collector and has sent it to SMR and to the block check.
C36_Witness ==
  /\ last.op = "handle_event"
  /\ last.err = Ok
  /\ state[last.node].round = INIT_ROUND + 1
  /\ \E i \in 1 .. Len(last.fx) : last.fx[i] = <<"save_wal", "Propose">>
  /\ \E i \in 1 .. Len(last.trig) :
       last.trig[i].trigger_type = "Proposal" /\ last.trig[i].round = INIT_ROUND + 1
  /\ \E t \in last.chk : t.round = INIT_ROUND + 1


\* ------------------------------------------------------------------- C37
\* Node n handles an event that SMR made for another height than the one
\* State is at.
HandlesStaleEvent(n) ==
  /\ last'.node = n
  /\ last'.op = "handle_event"
  /\ events[n] # <<>>
  /\ Head(events[n]).type \in {"NewRoundInfo", "PrevoteVote", "PrecommitVote", "Commit"}
  /\ Head(events[n]).height # state[n].height

\* C37: an SMR event made for a height other than State's height (a
\* NewRoundInfo, PrevoteVote, PrecommitVote or Commit still queued when a
\* RichStatus moves State to a higher height) does not change State's round
\* and does not make State sign a vote, save a WAL record, propose or commit.
C37_StaleEventHarmless ==
  [][\A n \in Nodes :
       HandlesStaleEvent(n)
       => /\ state'[n].round = state[n].round
          /\ voted'[n] = voted[n]
          /\ wal'[n] = wal[n]
          /\ committed'[n] = committed[n]
          /\ \A i \in 1 .. Len(last'.out) : last'.out[i].kind # "SignedProposal"]_vars


\* ------------------------------------------------------------------- C38
\* Node n broadcasts the AggregatedVote qc in this step.
BroadcastsQc(n, qc) ==
  /\ last'.node = n
  /\ \E i \in 1 .. Len(last'.out) :
       last'.out[i].kind = "AggregatedVote" /\ last'.out[i].msg = qc

\* The QCs a step broadcasts.
QcsOut == {last'.out[i].msg : i \in {j \in 1 .. Len(last'.out) :
                                      last'.out[j].kind = "AggregatedVote"}}

\* C38: for each (height, round, vote_type) a node builds and broadcasts an
\* AggregatedVote at most once, whatever votes arrive afterwards, including
\* votes of later rounds of the height and the leader's own vote: a node
\* that holds the QC it has built for a slot broadcasts no QC of that slot.
C38_QcBuiltOnce ==
  [][\A n \in Nodes : \A qc \in QcsOut :
       BroadcastsQc(n, qc)
       => get_qc_by_id(state[n].qcs, qc.height, qc.round, qc.vote_type) = None]_vars


\* ------------------------------------------------------------------- C39
\* Node n, without consensus power, takes an input in this step: a message
\* from the network, a verified message, an SMR event or a check answer.
IdleTakesInput(n) ==
  /\ ~state[n].consensus_power
  /\ last'.node = n
  /\ last'.op \in Handlers \cup {"raw"}

\* The step handles a RichStatus of a height above the node's.
HandlesLaterStatus(n) ==
  /\ last'.op = "handle_msg"
  /\ verify_sig[n] # <<>>
  /\ Head(verify_sig[n]).kind = "RichStatus"
  /\ Head(verify_sig[n]).msg.height > state[n].height

\* C39: while consensus_power is false State signs nothing, broadcasts and
\* transmits nothing, writes no WAL record and sends no SMR trigger; the only
\* input that changes its state is a RichStatus of a height above its own,
\* which restores normal operation only when the node's address is in the
\* authority list of that status.
C39_IdleWithoutPower ==
  [][\A n \in Nodes :
       IdleTakesInput(n)
       => /\ state'[n] # state[n] => HandlesLaterStatus(n)
          /\ state'[n].consensus_power
               => /\ HandlesLaterStatus(n)
                  /\ is_consensus_node(Head(verify_sig[n]).msg, n)
          /\ ~state'[n].consensus_power
               => /\ voted'[n] = voted[n]
                  /\ wal'[n] = wal[n]
                  /\ triggers'[n] = triggers[n]
                  /\ last'.trig = <<>>
                  /\ last'.out = <<>>
                  /\ net' = net]_vars

\* The node, without consensus power at height MaxHeight, has been handed
\* the proposal of that height and has dropped it.
C39_Witness ==
  /\ last.op = "handle_msg"
  /\ last.node = Leaving
  /\ state[Leaving].height = MaxHeight
  /\ ~state[Leaving].consensus_power
  /\ state[Leaving].proposals = {}
  /\ budget.net <= MaxNet - 2
  /\ verify_sig[Leaving] = <<>>
  /\ last.fx = <<>>

\* The node, started again without consensus power, has got its power back
\* from the status of a height whose authority list holds it.
PowerRestored ==
  /\ last.op = "handle_msg"
  /\ state[last.node].consensus_power
  /\ budget.fault < MaxFault
  /\ \E i \in 1 .. Len(last.trig) : last.trig[i].trigger_type = "NewHeight"


\* ------------------------------------------------------------------- C40
\* Node n handles a signed choke of its height and a round above its own.
HandlesLaterChoke(n) ==
  /\ HandlesMsg(n)
  /\ Head(verify_sig[n]).kind = "SignedChoke"
  /\ Head(verify_sig[n]).msg.choke.height = state[n].height
  /\ Head(verify_sig[n]).msg.choke.round > state[n].round

\* What the step may do with the justification from of the choke: a choke QC
\* is stored and SMR told to continue at the round after it; no other
\* ContinueRound is sent and no other choke QC stored.
OnlyJustification(n, from) ==
  /\ \A i \in ContinueRounds(last'.trig) :
       from.tag = "ChokeQC" /\ last'.trig[i].round = from.qc.round + 1
  /\ \/ state'[n].choke_qcs = state[n].choke_qcs
     \/ /\ from.tag = "ChokeQC"
        /\ state'[n].choke_qcs = ChokeQcSet(state[n].choke_qcs, from.qc.round, from.qc)

\* C40: a signed choke of the current height and a round above self.round is
\* never inserted into the choke collector and never counted toward a choke
\* threshold: State only processes its `from` (handle_aggregated_vote for a
\* PrevoteQC or PrecommitQC, handle_aggregated_choke for a ChokeQC) and
\* returns.
C40_LaterChokeNotCollected ==
  [][\A n \in Nodes :
       HandlesLaterChoke(n)
       => /\ state'[n].chokes = state[n].chokes
          /\ OnlyJustification(n, Head(verify_sig[n]).msg.choke.from)]_vars

\* The node at round 0, with too few chokes of round 0 for a choke QC, has
\* handled a choke of round 1: the choke QC it carries is stored and SMR is
\* told to continue, the choke itself is not collected.
C40_Witness ==
  /\ last.op = "handle_msg"
  /\ last.err = Ok
  /\ state[last.node].round = INIT_ROUND
  /\ ChokeQc0 \in state[last.node].choke_qcs
  /\ get_chokes(state[last.node].chokes, INIT_ROUND + 1) = {}
  /\ Cardinality(get_chokes(state[last.node].chokes, INIT_ROUND)) = 2
  /\ \E i \in 1 .. Len(last.trig) :
       last.trig[i].trigger_type = "ContinueRound" /\ last.trig[i].round = INIT_ROUND + 1

====
